---------------------------- MODULE Spec2Model ----------------------------
(***************************************************************************)
(* A model of the expense analytics backend (expense_analyzer_backend):    *)
(* the expenses collection, the loader Expense.find_by_user_id, the        *)
(* ExpenseAnalyzer service (category aggregation, weekly trend, suggestion *)
(* rules, comprehensive analysis) and the routes that drive them.          *)
(*                                                                         *)
(* Conventions.                                                            *)
(*  - Money is an integer number of mills (1/1000 of a currency unit), so  *)
(*    that rounding to 2 decimals is a real operation: a value "rounded to *)
(*    2 decimals" is a multiple of 10 mills.  Arithmetic is exact; the     *)
(*    binary floating point error of the Python floats is not modelled.    *)
(*  - A percentage is an integer number of hundredths of a percent.        *)
(*  - A date is a day ordinal, day 0 being Monday 2024-01-01; the model    *)
(*    covers the calendar years 2024 and 2025 (days 0..730).               *)
(*  - A Python string that is only compared for equality is a TLA+ string; *)
(*    a string that is sorted (the year_week key) is the sequence of its   *)
(*    code points.                                                         *)
(*  - A Python dict is a function; a missing key is a key outside DOMAIN.  *)
(***************************************************************************)
EXTENDS Integers, Sequences, FiniteSets, TLC

VARIABLES
    expenses,   \* db.expenses: the set of stored expense documents
    nextId,     \* the next ObjectId the collection hands out
    now,        \* datetime.utcnow(), as a day ordinal
    last,       \* the frame of the last analysis request: what it loaded and returned
    reports,    \* the monthly_reports table: the set of its rows
    calls,      \* the generate_monthly_report calls in progress, per worker
    batch,      \* the scheduled job generate_all_monthly_reports
    summary     \* the get_spending_summary request in progress

vars == <<expenses, nextId, now, last, reports, calls, batch, summary>>

\* The state the report routes, the scheduled job and a summary request in
\* progress work on.
reportVars == <<reports, calls, batch, summary>>

-----------------------------------------------------------------------------
(* Bounds of the model *)

MaxExpenses == 2
MaxTicks == 1
TickDays == 30
MaxWeeks == 5
MaxSeedCats == 4
MaxEqualCats == 31

(* Program constants *)

Mills == 1000
WindowDays == 30
HighShare == 30
MediumShare == 20
FrequencyThreshold == 15
TopN == 3

-----------------------------------------------------------------------------
(* Input alphabets *)

Users == {"u1", "u2"}

\* Category labels, in the order Python compares strings (by code point:
\* upper case before lower case).  pandas groupby sorts its keys in this order.
CategoryNames ==
    << "Bills", "Food", "Rent", "Travel",
       "c01", "c02", "c03", "c04", "c05", "c06", "c07", "c08", "c09", "c10",
       "c11", "c12", "c13", "c14", "c15", "c16", "c17", "c18", "c19", "c20",
       "c21", "c22", "c23", "c24", "c25", "c26", "c27", "c28", "food" >>

CatRank(c) == CHOOSE i \in 1..Len(CategoryNames) : CategoryNames[i] = c

\* The day ordinal of a date of 2024 or 2025 (2024 is a leap year).
MonthOffset(y) ==
    IF y = 2024 THEN <<0, 31, 60, 91, 121, 152, 182, 213, 244, 274, 305, 335>>
    ELSE <<366, 397, 425, 456, 486, 517, 547, 578, 609, 639, 670, 700>>

Date(y, m, d) == MonthOffset(y)[m] + d - 1

\* The first instant of the model: Tuesday 2025-03-04 (ISO week 10).
FirstNow == Date(2025, 3, 4)

\* No date argument (start_date=None, end_date=None, no 'date' in a body).
NoDate == -1

\* The bodies clients post (amounts in mills): the amounts of the worked
\* examples of the specification in two categories that differ in case only and
\* in two ISO weeks (Monday 2025-02-24 is in week 9), a sub-cent amount with no
\* date, an amount the validator rejects, and one expense of a second user.
PostRequests ==
    { [user |-> "u1", amount |-> 350 * Mills, category |-> "Food",
       date |-> Date(2025, 2, 24)],
      [user |-> "u1", amount |-> 650 * Mills, category |-> "food",
       date |-> Date(2025, 3, 4)],
      [user |-> "u1", amount |-> 4, category |-> "Food", date |-> NoDate],
      [user |-> "u1", amount |-> 0, category |-> "Food", date |-> NoDate],
      [user |-> "u2", amount |-> 350 * Mills, category |-> "Food",
       date |-> Date(2025, 3, 4)] }

\* Amounts a client may put in an update (mills).
PutAmounts == {0}

\* The `days` query parameter of GET /trends
DaysChoices == {7, 30}

-----------------------------------------------------------------------------
(* Arithmetic *)

Abs(x) == IF x < 0 THEN -x ELSE x

\* n = q*d + r with 0 <= r < d: the integer nearest to n/d, ties to even
\* (Python's round and numpy's rint on an exact tie).
RoundHalfEven(q, r, d) ==
    IF 2 * r < d THEN q
    ELSE IF 2 * r > d THEN q + 1
    ELSE IF q % 2 = 0 THEN q ELSE q + 1

RoundDiv(n, d) == RoundHalfEven(n \div d, n % d, d)

\* round(n/d, 2) of a money value of n/d mills, in mills
Round2(n, d) == 10 * RoundDiv(n, 10 * d)

RECURSIVE SumRange(_, _, _)
\* s[lo] + ... + s[hi], by halves
SumRange(s, lo, hi) ==
    IF lo > hi THEN 0
    ELSE IF lo = hi THEN s[lo]
    ELSE LET mid == (lo + hi) \div 2
         IN  SumRange(s, lo, mid) + SumRange(s, mid + 1, hi)

\* sum(s)
SumSeq(s) == SumRange(s, 1, Len(s))

\* the `amount` column of a sequence of rows
AmountsOf(rows) == [i \in 1..Len(rows) |-> rows[i].amount]

SeqMin(s) == CHOOSE x \in {s[i] : i \in 1..Len(s)} : \A j \in 1..Len(s) : x <= s[j]
SeqMax(s) == CHOOSE x \in {s[i] : i \in 1..Len(s)} : \A j \in 1..Len(s) : x >= s[j]

-----------------------------------------------------------------------------
(* Calendar: pandas' dt.isocalendar().week, dt.year and dt.date *)

\* Day 0 is a Monday and the first day of ISO week 1 of 2024; the ISO years 2024
\* and 2025 have 52 weeks each, so over days 0..730 the ISO week number is the
\* index of the day's Monday-aligned block of 7 days, modulo 52.
IsoWeek(d) == ((d \div 7) % 52) + 1

\* The calendar year (2024 is a leap year: days 0..365).
CalendarYear(d) == IF d <= 365 THEN 2024 ELSE 2025

\* The Monday that starts the ISO week of day d: the chronological identity of
\* the week.
WeekStart(d) == d - (d % 7)

-----------------------------------------------------------------------------
(* Strings that are sorted: sequences of code points *)

RECURSIVE Digits(_)
\* str(n) for an integer n >= 0
Digits(n) == IF n < 10 THEN <<48 + n>> ELSE Digits(n \div 10) \o <<48 + (n % 10)>>

\* df['year'].astype(str) + '-W' + df['week'].astype(str)
YearWeekKey(d) == Digits(CalendarYear(d)) \o <<45, 87>> \o Digits(IsoWeek(d))

RECURSIVE StrLess(_, _)
\* Python's a < b on strings: lexicographic by code point
StrLess(a, b) ==
    IF b = <<>> THEN FALSE
    ELSE IF a = <<>> THEN TRUE
    ELSE IF Head(a) # Head(b) THEN Head(a) < Head(b)
    ELSE StrLess(Tail(a), Tail(b))

RECURSIVE SortedStrings(_)
\* sorted(S) for a set S of strings
SortedStrings(S) ==
    IF S = {} THEN <<>>
    ELSE LET m == CHOOSE x \in S : \A y \in S \ {x} : StrLess(x, y)
         IN <<m>> \o SortedStrings(S \ {m})

-----------------------------------------------------------------------------
(* models/expense.py: the expenses collection and its loader *)

\* An expense document: _id, userId, amount, category, date.
ExpenseDoc(id, u, a, c, d) ==
    [id |-> id, user_id |-> u, amount |-> a, category |-> c, date |-> d]

\* The query of find_by_user_id: userId, and the date and category filters that
\* are given.  None is an absent string argument or a missing value.
None == "None"

\* The request workers that may run generate_monthly_report at the same time.
Workers == {"w1", "w2"}

\* A worker that runs no call; the scheduled job before it is started.
NoCall == [user_id |-> None]
IdleBatch == [state |-> "idle"]

\* No summary request is in progress.
IdleSummary == [state |-> "idle"]

\* No report was generated yet and nothing is in progress.
ReportsInit ==
    /\ reports = {}
    /\ calls = [w \in Workers |-> NoCall]
    /\ batch = IdleBatch
    /\ summary = IdleSummary

MatchesQuery(e, u, start_date, end_date, category) ==
    /\ e.user_id = u
    /\ (start_date # NoDate => e.date >= start_date)
    /\ (end_date # NoDate => e.date <= end_date)
    /\ (category # None => e.category = category)

\* The documents of S in the collection's natural order: insertion order, which
\* is the order of their ids.
NaturalOrder(S) ==
    LET ids == SelectSeq([i \in 1..(nextId - 1) |-> i],
                         LAMBDA i : \E e \in S : e.id = i)
    IN  [k \in 1..Len(ids) |-> CHOOSE e \in S : e.id = ids[k]]

RECURSIVE ByDateDesc(_, _)
\* rows, stably ordered by the dates of the set `dates`, newest first
ByDateDesc(rows, dates) ==
    IF dates = {} THEN <<>>
    ELSE LET newest == CHOOSE d \in dates : \A e \in dates : e <= d
         IN  SelectSeq(rows, LAMBDA r : r.date = newest)
             \o ByDateDesc(rows, dates \ {newest})

\* cursor.sort('date', -1): newest first; documents of equal date stay in the
\* collection's natural order.
SortByDateDesc(S) == ByDateDesc(NaturalOrder(S), {e.date : e \in S})

find_by_user_id(u, start_date, end_date, category) ==
    SortByDateDesc({e \in expenses : MatchesQuery(e, u, start_date, end_date, category)})

\* category_totals: the summed amount of each category of the list.
CategoryTotals(found) ==
    [c \in {found[i].category : i \in 1..Len(found)} |->
        SumSeq(AmountsOf(SelectSeq(found, LAMBDA e : e.category = c)))]

\* max(category_totals, key=category_totals.get): the first key of the largest
\* total in the dict's order, which is the order of first occurrence.
MaxCategory(found) ==
    LET totals == CategoryTotals(found)
        first(c) == CHOOSE i \in 1..Len(found) :
                        /\ found[i].category = c
                        /\ \A j \in 1..(i - 1) : found[j].category # c
    IN  CHOOSE c \in DOMAIN totals :
            \A d \in DOMAIN totals :
                \/ totals[d] < totals[c]
                \/ (totals[d] = totals[c] /\ first(c) <= first(d))

-----------------------------------------------------------------------------
(* services/expense_analyzer.py: ExpenseAnalyzer *)

\* ExpenseAnalyzer.__init__: the analyzer fixes its cutoffs when it is built.
ExpenseAnalyzer(u) ==
    [user_id |-> u, thirty_days_ago |-> now - WindowDays, seven_days_ago |-> now - 7]

\* One DataFrame row per loaded expense, in the loader's order.
RowsOf(found) ==
    [i \in 1..Len(found) |->
        [id |-> found[i].id, amount |-> found[i].amount,
         category |-> found[i].category, date |-> found[i].date]]

\* get_expenses_dataframe with the rows of the previous request kept in the
\* frame: the new rows are added to them.
get_expenses_dataframe_retaining(self, start_date, end_date) ==
    last.df \o RowsOf(find_by_user_id(self.user_id,
                                      IF start_date # NoDate THEN start_date
                                                              ELSE self.thirty_days_ago,
                                      end_date, None))

get_expenses_dataframe(self, start_date, end_date) ==
    RowsOf(find_by_user_id(self.user_id,
                           IF start_date # NoDate THEN start_date
                                                   ELSE self.thirty_days_ago,
                           end_date, None))

\* df['amount'].sum()
TotalOf(df) == SumSeq(AmountsOf(df))

\* Percentage with the quotient cut off after 2 decimals instead of rounded.
Percentage_truncated(total_spent, total_spending) ==
    LET a == total_spent * 100
        b == (a % total_spending) * 100
    IN  (a \div total_spending) * 100 + (b \div total_spending)

\* round((total_spent / total_spending) * 100, 2), in hundredths of a percent.
\* The quotient total_spent * 10000 / total_spending is taken in two steps of
\* 100 to keep the intermediate products small.
Percentage(total_spent, total_spending) ==
    LET a  == total_spent * 100
        q1 == a \div total_spending
        r1 == a % total_spending
        b  == r1 * 100
    IN  RoundHalfEven(q1 * 100 + (b \div total_spending), b % total_spending,
                      total_spending)

\* CategoryStats with the groups compared without regard to letter case.
CategoryStats_caseless(df, c, total_spending) ==
    LET fold(x) == IF x = "Food" THEN "food" ELSE x
        amts == AmountsOf(SelectSeq(df, LAMBDA r : fold(r.category) = fold(c)))
        total_spent == Round2(SumSeq(amts), 1)
    IN  [total_spent |-> total_spent,
         transaction_count |-> Len(amts),
         average_amount |-> Round2(SumSeq(amts), Len(amts)),
         min_amount |-> Round2(SeqMin(amts), 1),
         max_amount |-> Round2(SeqMax(amts), 1),
         percentage_of_total |->
             IF total_spending > 0 THEN Percentage(total_spent, total_spending) ELSE 0]

\* One group of df.groupby('category').agg(sum, count, mean, min, max).round(2),
\* with the percentage the loop adds.
CategoryStats(df, c, total_spending) ==
    LET amts == AmountsOf(SelectSeq(df, LAMBDA r : r.category = c))
        total_spent == Round2(SumSeq(amts), 1)
    IN  [total_spent |-> total_spent,
         transaction_count |-> Len(amts),
         average_amount |-> Round2(SumSeq(amts), Len(amts)),
         min_amount |-> Round2(SeqMin(amts), 1),
         max_amount |-> Round2(SeqMax(amts), 1),
         percentage_of_total |->
             IF total_spending > 0 THEN Percentage(total_spent, total_spending) ELSE 0]

\* The groups of the groupby: the category strings that occur, compared exactly.
CategoriesOf(df) == {df[i].category : i \in 1..Len(df)}

analyze_spending_by_category(df) ==
    IF df = <<>> THEN <<>>
    ELSE [c \in CategoriesOf(df) |-> CategoryStats(df, c, TotalOf(df))]

\* Iteration order of a dict built from a groupby: the keys in sorted order.
SortedCategories(S) == SelectSeq(CategoryNames, LAMBDA c : c \in S)

DictKeys(d) == SortedCategories(DOMAIN d)

-----------------------------------------------------------------------------
(* ExpenseAnalyzer.get_spending_trends *)

\* Each week with the amount of its first record in place of the sum.
WeeklySpending_first(df) ==
    [k \in {YearWeekKey(df[i].date) : i \in 1..Len(df)} |->
        AmountsOf(SelectSeq(df, LAMBDA r : YearWeekKey(r.date) = k))[1]]

\* df.groupby('year_week')['amount'].sum().to_dict()
WeeklySpending(df) ==
    [k \in {YearWeekKey(df[i].date) : i \in 1..Len(df)} |->
        SumSeq(AmountsOf(SelectSeq(df, LAMBDA r : YearWeekKey(r.date) = k)))]

\* weeks = sorted(weekly_spending.keys())
SortedWeeks(weekly_spending) == SortedStrings(DOMAIN weekly_spending)

\* The trend is classified from one week on.
EnoughWeeks_one(weeks) == Len(weeks) >= 1

\* if len(weeks) >= 2: the trend is classified from two week keys on.
EnoughWeeks(weeks) == Len(weeks) >= 2

\* weeks[-2:] if len(weeks) >= 2 else weeks[-1:]
RecentWeeks(weeks) ==
    IF Len(weeks) >= 2 THEN SubSeq(weeks, Len(weeks) - 1, Len(weeks))
                       ELSE SubSeq(weeks, Len(weeks), Len(weeks))

\* weeks[:2] whenever there are two weeks.
EarlierWeeks_two(weeks) ==
    IF Len(weeks) >= 2 THEN SubSeq(weeks, 1, 2) ELSE SubSeq(weeks, 1, 1)

\* weeks[:2] if len(weeks) >= 4 else weeks[:1]
EarlierWeeks(weeks) ==
    IF Len(weeks) >= 4 THEN SubSeq(weeks, 1, 2) ELSE SubSeq(weeks, 1, 1)

\* sum(weekly_spending[w] for w in ws)
WindowSum(weekly_spending, ws) == SumSeq([i \in 1..Len(ws) |-> weekly_spending[ws[i]]])

\* ClassifyTrend with the bounds counted in: >= and <= for > and <.
ClassifyTrend_inclusive(rs, rl, es, el) ==
    IF rs * el * 10 >= es * rl * 11 THEN "increasing"
    ELSE IF rs * el * 10 <= es * rl * 9 THEN "decreasing"
    ELSE "stable"

\* The label from recent_weekly_avg = rs/rl and earlier_weekly_avg = es/el:
\* recent > earlier * 1.1, recent < earlier * 0.9, or neither.
ClassifyTrend(rs, rl, es, el) ==
    IF rs * el * 10 > es * rl * 11 THEN "increasing"
    ELSE IF rs * el * 10 < es * rl * 9 THEN "decreasing"
    ELSE "stable"

\* df.groupby(df['date'].dt.date)['amount'].sum(): a Series indexed by the
\* dates in ascending order.
DailySpending(df) ==
    [d \in {df[i].date : i \in 1..Len(df)} |->
        SumSeq(AmountsOf(SelectSeq(df, LAMBDA r : r.date = d)))]

\* The last label, in index order, of the largest value.
IdxMax_last(series) ==
    CHOOSE d \in DOMAIN series :
        /\ \A e \in DOMAIN series : series[e] <= series[d]
        /\ \A e \in DOMAIN series : series[e] = series[d] => d >= e

\* Series.idxmax / idxmin: the first label, in index order, of the extreme value.
IdxMax(series) ==
    CHOOSE d \in DOMAIN series :
        /\ \A e \in DOMAIN series : series[e] <= series[d]
        /\ \A e \in DOMAIN series : series[e] = series[d] => d <= e

IdxMin(series) ==
    CHOOSE d \in DOMAIN series :
        /\ \A e \in DOMAIN series : series[e] >= series[d]
        /\ \A e \in DOMAIN series : series[e] = series[d] => d <= e

\* The divisor of daily_average.
DailyAverageDays == 30

get_spending_trends(df) ==
    IF df = <<>> THEN <<>>
    ELSE
    LET weekly_spending == WeeklySpending(df)
        weeks == SortedWeeks(weekly_spending)
        enough == EnoughWeeks(weeks)
        recent_weeks == RecentWeeks(weeks)
        earlier_weeks == EarlierWeeks(weeks)
        rs == WindowSum(weekly_spending, recent_weeks)
        es == WindowSum(weekly_spending, earlier_weeks)
        daily_spending == DailySpending(df)
    IN  [weekly_spending |-> weekly_spending,
         daily_average |-> Round2(TotalOf(df), DailyAverageDays),
         trend |-> IF enough
                   THEN ClassifyTrend(rs, Len(recent_weeks), es, Len(earlier_weeks))
                   ELSE "insufficient_data",
         recent_weekly_avg |-> IF enough THEN Round2(rs, Len(recent_weeks)) ELSE 0,
         earlier_weekly_avg |-> IF enough THEN Round2(es, Len(earlier_weeks)) ELSE 0,
         highest_spending_day |->
             [date |-> IdxMax(daily_spending),
              amount |-> daily_spending[IdxMax(daily_spending)]],
         lowest_spending_day |->
             [date |-> IdxMin(daily_spending),
              amount |-> daily_spending[IdxMin(daily_spending)]]]

-----------------------------------------------------------------------------
(* ExpenseAnalyzer.generate_smart_suggestions *)

\* A message is its template and the values formatted into it; Fmt1 and Fmt2
\* are the {:.1f} of a percentage (tenths of a percent) and the {:.2f} of an
\* amount (mills, a multiple of 10).
Fmt1(percentage) == RoundDiv(percentage, 10)
Fmt2(amount) == Round2(amount, 1)

\* sorted(category_analysis.items(), key=total_spent, reverse=True): a stable
\* sort, so categories of equal total_spent keep the dict's order.  The key at
\* place i of the dict goes to the place after every key of a larger total and
\* every earlier key of the same total.
SortByTotalDesc(category_analysis, keys) ==
    LET total(i) == category_analysis[keys[i]].total_spent
        place(i) == 1 + Cardinality({j \in 1..Len(keys) :
                                        \/ total(j) > total(i)
                                        \/ (total(j) = total(i) /\ j < i)})
    IN  [p \in 1..Len(keys) |-> keys[CHOOSE i \in 1..Len(keys) : place(i) = p]]

\* TopCategories without the slice: every category is examined.
TopCategories_all(category_analysis) ==
    SortByTotalDesc(category_analysis, DictKeys(category_analysis))

\* sorted_categories[:3]
TopCategories(category_analysis) ==
    LET sorted_categories == SortByTotalDesc(category_analysis, DictKeys(category_analysis))
    IN  SubSeq(sorted_categories, 1,
               IF Len(sorted_categories) < TopN THEN Len(sorted_categories) ELSE TopN)

\* The share rule for one category: a warning above 30%, a tip above 20%.
ShareSuggestion(category, data) ==
    IF data.percentage_of_total > HighShare * 100
    THEN << [type |-> "warning",
             category |-> category,
             message |-> <<"spending_a_lot", category, Fmt1(data.percentage_of_total)>>,
             current_spending |-> data.total_spent,
             suggested_reduction |-> Round2(data.total_spent * 175, 1000),
             priority |-> "high"] >>
    ELSE IF data.percentage_of_total > MediumShare * 100
    THEN << [type |-> "tip",
             category |-> category,
             message |-> <<"top_spending_category", category, Fmt2(data.total_spent)>>,
             current_spending |-> data.total_spent,
             priority |-> "medium"] >>
    ELSE <<>>

RECURSIVE ShareSuggestions(_, _)
ShareSuggestions(category_analysis, cats) ==
    IF cats = <<>> THEN <<>>
    ELSE ShareSuggestion(Head(cats), category_analysis[Head(cats)])
         \o ShareSuggestions(category_analysis, Tail(cats))

\* trends.get(key)
DictGet(d, key) == IF key \in DOMAIN d THEN d[key] ELSE None

\* TrendSuggestion with the saving taken as recent - earlier.
TrendSuggestion_reversed(trends) ==
    IF DictGet(trends, "trend") = "increasing"
    THEN << [type |-> "alert",
             message |-> <<"spending_increased", Fmt2(trends.earlier_weekly_avg),
                           Fmt2(trends.recent_weekly_avg)>>,
             trend |-> "increasing",
             priority |-> "high"] >>
    ELSE IF DictGet(trends, "trend") = "decreasing"
    THEN << [type |-> "positive",
             message |-> <<"spending_decreased",
                           Fmt2(trends.recent_weekly_avg - trends.earlier_weekly_avg)>>,
             trend |-> "decreasing",
             priority |-> "low"] >>
    ELSE <<>>

\* The trend rule: an alert for an increasing trend, praise for a decreasing one.
TrendSuggestion(trends) ==
    IF DictGet(trends, "trend") = "increasing"
    THEN << [type |-> "alert",
             message |-> <<"spending_increased", Fmt2(trends.earlier_weekly_avg),
                           Fmt2(trends.recent_weekly_avg)>>,
             trend |-> "increasing",
             priority |-> "high"] >>
    ELSE IF DictGet(trends, "trend") = "decreasing"
    THEN << [type |-> "positive",
             message |-> <<"spending_decreased",
                           Fmt2(trends.earlier_weekly_avg - trends.recent_weekly_avg)>>,
             trend |-> "decreasing",
             priority |-> "low"] >>
    ELSE <<>>

\* The consolidation tip from 15 transactions on.
FrequencySuggestion_inclusive(category, data) ==
    IF data.transaction_count >= FrequencyThreshold
    THEN << [type |-> "tip",
             category |-> category,
             message |-> <<"consolidate_purchases", category, data.transaction_count>>,
             transaction_count |-> data.transaction_count,
             priority |-> "medium"] >>
    ELSE <<>>

\* The consolidation tip of one category with more than 15 transactions.
FrequencySuggestion(category, data) ==
    IF data.transaction_count > FrequencyThreshold
    THEN << [type |-> "tip",
             category |-> category,
             message |-> <<"consolidate_purchases", category, data.transaction_count>>,
             transaction_count |-> data.transaction_count,
             priority |-> "medium"] >>
    ELSE <<>>

\* The loop over category_analysis.items(): one tip per category over the
\* threshold, in the dict's order.
FrequencySuggestions(category_analysis, cats) ==
    LET hot == SelectSeq(cats, LAMBDA c :
                   FrequencySuggestion(c, category_analysis[c]) # <<>>)
    IN  [i \in 1..Len(hot) |->
            FrequencySuggestion(hot[i], category_analysis[hot[i]])[1]]

\* BudgetSuggestion without the guard on total_spending.
BudgetSuggestion_unguarded(total_spending) ==
    LET suggested_budget == Round2(total_spending * 9, 10)
    IN << [type |-> "budget",
           message |-> <<"monthly_budget", Fmt2(suggested_budget)>>,
           current_spending |-> total_spending,
           suggested_budget |-> suggested_budget,
           priority |-> "medium"] >>

BudgetSuggestion(total_spending) ==
    IF total_spending > 0
    THEN LET suggested_budget == Round2(total_spending * 9, 10)
         IN << [type |-> "budget",
                message |-> <<"monthly_budget", Fmt2(suggested_budget)>>,
                current_spending |-> total_spending,
                suggested_budget |-> suggested_budget,
                priority |-> "medium"] >>
    ELSE <<>>

\* priority_order.get(x.get('priority', 'low'), 1)
PriorityRank(s) ==
    LET p == DictGet(s, "priority")
    IN  IF p = "high" THEN 3 ELSE IF p = "medium" THEN 2 ELSE 1

\* SortByPriority as an ascending sort that is then reversed: the priorities
\* descend, suggestions of equal priority come out in reverse order.
SortByPriority_reversed(suggestions) ==
    LET asc == SelectSeq(suggestions, LAMBDA s : PriorityRank(s) = 1)
               \o SelectSeq(suggestions, LAMBDA s : PriorityRank(s) = 2)
               \o SelectSeq(suggestions, LAMBDA s : PriorityRank(s) = 3)
    IN  [i \in 1..Len(asc) |-> asc[Len(asc) + 1 - i]]

\* suggestions.sort(key=rank, reverse=True): list.sort is stable, and with
\* reverse=True elements of equal key keep their order.
SortByPriority(suggestions) ==
    SelectSeq(suggestions, LAMBDA s : PriorityRank(s) = 3)
    \o SelectSeq(suggestions, LAMBDA s : PriorityRank(s) = 2)
    \o SelectSeq(suggestions, LAMBDA s : PriorityRank(s) = 1)

NoDataSuggestion(template) ==
    [type |-> "info", message |-> <<template>>, priority |-> "low"]

\* The try block raises when a rule reads a key its input lacks: the sort key
\* reads total_spent of every entry, the share rule percentage_of_total of the
\* three entries it examines, the trend rule both weekly averages when the
\* trend is increasing or decreasing, the frequency rule transaction_count of
\* every entry.
SuggestionsRaise(category_analysis, trends) ==
    IF \E c \in DOMAIN category_analysis :
           "total_spent" \notin DOMAIN category_analysis[c]
    THEN TRUE
    ELSE \/ \E i \in 1..Len(TopCategories(category_analysis)) :
              "percentage_of_total"
                  \notin DOMAIN category_analysis[TopCategories(category_analysis)[i]]
         \/ /\ DictGet(trends, "trend") \in {"increasing", "decreasing"}
            /\ ~({"earlier_weekly_avg", "recent_weekly_avg"} \subseteq DOMAIN trends)
         \/ \E c \in DOMAIN category_analysis :
              "transaction_count" \notin DOMAIN category_analysis[c]

\* The except branch: one suggestion in place of the list built so far.
ErrorSuggestion ==
    [type |-> "error", message |-> <<"unable_to_generate">>, priority |-> "low"]

\* generate_smart_suggestions without the except branch: what the rules
\* appended before the failure is returned.
generate_smart_suggestions_uncaught(category_analysis, trends, total_spending) ==
    IF DOMAIN category_analysis = {}
    THEN << NoDataSuggestion("no_data_start_tracking") >>
    ELSE IF SuggestionsRaise(category_analysis, trends)
    THEN BudgetSuggestion(total_spending)
    ELSE
    LET suggestions ==
            SortByPriority(
                ShareSuggestions(category_analysis, TopCategories(category_analysis))
                \o TrendSuggestion(trends)
                \o FrequencySuggestions(category_analysis, DictKeys(category_analysis))
                \o BudgetSuggestion(total_spending))
    IN  IF suggestions # <<>> THEN suggestions
        ELSE << [type |-> "positive", message |-> <<"well_balanced">>,
                 priority |-> "low"] >>

generate_smart_suggestions(category_analysis, trends, total_spending) ==
    IF DOMAIN category_analysis = {}
    THEN << NoDataSuggestion("no_data_start_tracking") >>
    ELSE IF SuggestionsRaise(category_analysis, trends)
    THEN << ErrorSuggestion >>
    ELSE
    LET suggestions ==
            SortByPriority(
                ShareSuggestions(category_analysis, TopCategories(category_analysis))
                \o TrendSuggestion(trends)
                \o FrequencySuggestions(category_analysis, DictKeys(category_analysis))
                \o BudgetSuggestion(total_spending))
    IN  IF suggestions # <<>> THEN suggestions
        ELSE << [type |-> "positive", message |-> <<"well_balanced">>,
                 priority |-> "low"] >>

-----------------------------------------------------------------------------
(* ExpenseAnalyzer.get_comprehensive_analysis *)

\* max(category_analysis.items(), key=total_spent)[0]: the first maximal entry
\* in the dict's order.
TopCategory(category_analysis) ==
    IF DOMAIN category_analysis = {} THEN None
    ELSE LET keys == DictKeys(category_analysis)
             total(i) == category_analysis[keys[i]].total_spent
         IN  keys[CHOOSE i \in 1..Len(keys) :
                      /\ \A j \in 1..Len(keys) : total(j) <= total(i)
                      /\ \A j \in 1..(i - 1) : total(j) < total(i)]

\* EmptyAnalysis with the closing suggestion of the non-empty path.
EmptyAnalysis_positive ==
    [success |-> TRUE,
     data |-> [total_expenses |-> 0,
               expense_count |-> 0,
               category_analysis |-> <<>>,
               trends |-> <<>>,
               suggestions |-> << [type |-> "positive", message |-> <<"well_balanced">>,
                                   priority |-> "low"] >>,
               period |-> "30 days",
               analysis_date |-> now]]

\* The result for an empty DataFrame.
EmptyAnalysis ==
    [success |-> TRUE,
     data |-> [total_expenses |-> 0,
               expense_count |-> 0,
               category_analysis |-> <<>>,
               trends |-> <<>>,
               suggestions |-> << NoDataSuggestion("no_data_start_adding") >>,
               period |-> "30 days",
               analysis_date |-> now]]

\* The result for a DataFrame with rows.
FullAnalysis(df) ==
    LET total_spending == TotalOf(df)
        category_analysis == analyze_spending_by_category(df)
        trends == get_spending_trends(df)
        suggestions == generate_smart_suggestions(category_analysis, trends,
                                                  total_spending)
    IN  [success |-> TRUE,
         data |-> [total_expenses |-> Round2(total_spending, 1),
                   expense_count |-> Len(df),
                   category_analysis |-> category_analysis,
                   trends |-> trends,
                   suggestions |-> suggestions,
                   period |-> "30 days",
                   analysis_date |-> now,
                   average_daily_spending |-> Round2(total_spending, WindowDays),
                   top_category |-> TopCategory(category_analysis)]]

get_comprehensive_analysis(self) ==
    LET df == get_expenses_dataframe(self, NoDate, NoDate)
    IN  IF df = <<>> THEN EmptyAnalysis ELSE FullAnalysis(df)

\* A failure inside one stage of the analysis.  stage "categories" or "trends":
\* the stage raises and its except branch returns {}.  stage "entry": the
\* entry of `category` reaches the suggestion rules without `field`; stage
\* "report": the trend report reaches them without `field`.
Fault(stage, category, field) ==
    [stage |-> stage, category |-> category, field |-> field]

StageFaults ==
    {Fault("categories", None, None), Fault("trends", None, None)}
    \cup {Fault("entry", c, f) :
              c \in {CategoryNames[1], CategoryNames[2]},
              f \in {"percentage_of_total", "transaction_count"}}
    \cup {Fault("report", None, f) : f \in {"earlier_weekly_avg", "trend"}}

\* A record without one of its fields.
WithoutField(r, field) == [f \in (DOMAIN r) \ {field} |-> r[f]]

\* The category_analysis the later stages receive under a fault.
FaultyCategories(df, fault) ==
    LET category_analysis == analyze_spending_by_category(df)
    IN  IF fault.stage = "categories" THEN <<>>
        ELSE IF fault.stage = "entry" /\ fault.category \in DOMAIN category_analysis
        THEN [c \in DOMAIN category_analysis |->
                 IF c = fault.category
                 THEN WithoutField(category_analysis[c], fault.field)
                 ELSE category_analysis[c]]
        ELSE category_analysis

\* The trends the later stages receive under a fault.
FaultyTrends(df, fault) ==
    IF fault.stage = "trends" THEN <<>>
    ELSE IF fault.stage = "report"
    THEN WithoutField(get_spending_trends(df), fault.field)
    ELSE get_spending_trends(df)

\* FailingAnalysis with a stage's failure passed on to the caller, whose except
\* branch answers with a failure.
FailingAnalysis_propagating(df, fault) ==
    IF fault.stage \in {"categories", "trends"}
    THEN [success |-> FALSE, error |-> fault.stage,
          message |-> "Failed to analyze expenses"]
    ELSE FullAnalysis(df)

\* The result for a DataFrame with rows when a stage fails.
FailingAnalysis(df, fault) ==
    LET total_spending == TotalOf(df)
        category_analysis == FaultyCategories(df, fault)
        trends == FaultyTrends(df, fault)
        suggestions == generate_smart_suggestions(category_analysis, trends,
                                                  total_spending)
    IN  [success |-> TRUE,
         data |-> [total_expenses |-> Round2(total_spending, 1),
                   expense_count |-> Len(df),
                   category_analysis |-> category_analysis,
                   trends |-> trends,
                   suggestions |-> suggestions,
                   period |-> "30 days",
                   analysis_date |-> now,
                   average_daily_spending |-> Round2(total_spending, WindowDays),
                   top_category |-> TopCategory(category_analysis)]]

-----------------------------------------------------------------------------
(* routes/analysis.py *)

\* `repeat` tells that the request is the same as the one before it, for the
\* same user, with the same cutoff and on the same stored expenses.
NoFrame ==
    [op |-> "none", user |-> None, days |-> 0, start_date |-> NoDate,
     df |-> <<>>, response |-> <<>>, repeat |-> FALSE]

\* GET /comprehensive
Route_get_comprehensive_analysis(u) ==
    LET analyzer == ExpenseAnalyzer(u)
    IN  /\ last' = [op |-> "comprehensive", user |-> u, days |-> WindowDays,
                    start_date |-> analyzer.thirty_days_ago,
                    df |-> get_expenses_dataframe(analyzer, NoDate, NoDate),
                    response |-> get_comprehensive_analysis(analyzer),
                    repeat |-> /\ last.op = "comprehensive"
                               /\ last.user = u
                               /\ last.start_date = analyzer.thirty_days_ago
                               /\ last.df = RowsOf(find_by_user_id(
                                                u, analyzer.thirty_days_ago,
                                                NoDate, None))]
        /\ UNCHANGED <<expenses, nextId, now>>
        /\ UNCHANGED reportVars

\* GET /comprehensive while a stage of the analysis fails.
Route_get_comprehensive_analysis_failing(u, fault) ==
    LET analyzer == ExpenseAnalyzer(u)
        df == get_expenses_dataframe(analyzer, NoDate, NoDate)
    IN  /\ last' = [op |-> "comprehensive_failing", user |-> u, days |-> WindowDays,
                    start_date |-> analyzer.thirty_days_ago,
                    df |-> df,
                    response |-> IF df = <<>> THEN EmptyAnalysis
                                              ELSE FailingAnalysis(df, fault),
                    repeat |-> FALSE,
                    fault |-> fault]
        /\ UNCHANGED <<expenses, nextId, now>>
        /\ UNCHANGED reportVars

\* GET /trends?days=
Route_get_spending_trends(u, days) ==
    LET start_date == now - days
        analyzer == ExpenseAnalyzer(u)
        df == get_expenses_dataframe(analyzer, start_date, NoDate)
    IN  /\ last' = [op |-> "trends", user |-> u, days |-> days,
                    start_date |-> start_date, df |-> df,
                    response |->
                        IF df = <<>>
                        THEN [success |-> TRUE,
                              data |-> [message |-> <<"no_data", days>>,
                                        trends |-> <<>>]]
                        ELSE [success |-> TRUE,
                              data |-> [period_days |-> days,
                                        trends |-> get_spending_trends(df)]],
                    repeat |-> FALSE]
        /\ UNCHANGED <<expenses, nextId, now>>
        /\ UNCHANGED reportVars

-----------------------------------------------------------------------------
(* routes/expenses.py and utils/validators.py *)

\* validate_expense_data: the checks on amount and category.
validate_expense_data(amount, category) ==
    IF amount <= 0 THEN "Amount must be greater than 0"
    ELSE IF category = "" THEN "Category must be a non-empty string"
    ELSE None

\* POST /expenses: a rejected body changes nothing; an absent date is utcnow().
Route_create_expense(u, amount, category, date) ==
    /\ Cardinality(expenses) < MaxExpenses
    /\ nextId <= MaxExpenses
    /\ IF validate_expense_data(amount, category) # None
       THEN UNCHANGED <<expenses, nextId>>
       ELSE /\ expenses' = expenses \cup
                   {ExpenseDoc(nextId, u, amount, category,
                               IF date = NoDate THEN now ELSE date)}
            /\ nextId' = nextId + 1
    /\ UNCHANGED <<now, last>>
    /\ UNCHANGED reportVars

\* find_by_id without the userId of the query.
find_by_id_anyone(expense_id, u) == {e \in expenses : e.id = expense_id}

\* Expense.find_by_id(expense_id, user_id)
find_by_id(expense_id, u) == {e \in expenses : e.id = expense_id /\ e.user_id = u}

\* PUT /expenses/<id> with an amount: the amount is converted, not validated.
Route_update_expense(u, expense_id, amount) ==
    /\ find_by_id(expense_id, u) # {}
    /\ expenses' = {IF e.id = expense_id THEN [e EXCEPT !.amount = amount] ELSE e :
                        e \in expenses}
    /\ UNCHANGED <<nextId, now, last>>
    /\ UNCHANGED reportVars

\* DELETE /expenses/<id>
Route_delete_expense(u, expense_id) ==
    /\ find_by_id(expense_id, u) # {}
    /\ expenses' = {e \in expenses : e.id # expense_id}
    /\ UNCHANGED <<nextId, now, last>>
    /\ UNCHANGED reportVars

\* Expense.to_dict
to_dict(e) ==
    [id |-> e.id, user_id |-> e.user_id, amount |-> e.amount,
     category |-> e.category, date |-> e.date]

\* The 404 of the routes on one expense.
ExpenseNotFound ==
    [success |-> FALSE, message |-> "Expense not found", status |-> 404]

\* GET /expenses/<id>
Route_get_expense(u, expense_id) ==
    /\ last' = [op |-> "get", user |-> u, expense_id |-> expense_id,
                response |->
                    IF find_by_id(expense_id, u) = {} THEN ExpenseNotFound
                    ELSE [success |-> TRUE,
                          data |-> to_dict(CHOOSE e \in find_by_id(expense_id, u) : TRUE),
                          status |-> 200]]
    /\ UNCHANGED <<expenses, nextId, now>>
    /\ UNCHANGED reportVars

\* PUT /expenses/<id> with an amount, with its answer.
Route_update_expense_answered(u, expense_id, amount) ==
    /\ IF find_by_id(expense_id, u) = {}
       THEN /\ last' = [op |-> "update", user |-> u, expense_id |-> expense_id,
                        response |-> ExpenseNotFound]
            /\ UNCHANGED expenses
       ELSE /\ expenses' = {IF e.id = expense_id THEN [e EXCEPT !.amount = amount]
                                                 ELSE e : e \in expenses}
            /\ last' = [op |-> "update", user |-> u, expense_id |-> expense_id,
                        response |->
                            [success |-> TRUE,
                             data |-> [to_dict(CHOOSE e \in find_by_id(expense_id, u) : TRUE)
                                          EXCEPT !.amount = amount],
                             message |-> "Expense updated successfully",
                             status |-> 200]]
    /\ UNCHANGED <<nextId, now>>
    /\ UNCHANGED reportVars

\* DELETE /expenses/<id>, with its answer.
Route_delete_expense_answered(u, expense_id) ==
    /\ IF find_by_id(expense_id, u) = {}
       THEN /\ last' = [op |-> "delete", user |-> u, expense_id |-> expense_id,
                        response |-> ExpenseNotFound]
            /\ UNCHANGED expenses
       ELSE /\ expenses' = {e \in expenses : e.id # expense_id}
            /\ last' = [op |-> "delete", user |-> u, expense_id |-> expense_id,
                        response |-> [success |-> TRUE,
                                      message |-> "Expense deleted successfully",
                                      status |-> 200]]
    /\ UNCHANGED <<nextId, now>>
    /\ UNCHANGED reportVars

\* GET /expenses?start_date=&end_date=
Route_get_expenses(u, start_date, end_date) ==
    LET found == find_by_user_id(u, start_date, end_date, None)
    IN  /\ last' = [op |-> "expenses", user |-> u,
                    start_date |-> start_date, end_date |-> end_date,
                    response |-> [success |-> TRUE,
                                  data |-> [i \in 1..Len(found) |-> to_dict(found[i])],
                                  count |-> Len(found)]]
        /\ UNCHANGED <<expenses, nextId, now>>
        /\ UNCHANGED reportVars

\* The three periods of the summary: the name and the days it looks back.
SummaryPeriods ==
    [last_7_days |-> 7, last_30_days |-> 30, last_90_days |-> 90]

\* The summary of one period with the category of the first expense of the
\* list as its top category.
PeriodSummary_first(found) ==
    IF found # <<>>
    THEN [total_spent |-> Round2(SumSeq(AmountsOf(found)), 1),
          transaction_count |-> Len(found),
          average_transaction |-> Round2(SumSeq(AmountsOf(found)), Len(found)),
          top_category |-> found[1].category,
          top_category_amount |-> Round2(CategoryTotals(found)[found[1].category], 1)]
    ELSE [total_spent |-> 0,
          transaction_count |-> 0,
          average_transaction |-> 0,
          top_category |-> None,
          top_category_amount |-> 0]

\* The summary of one period from the expenses loaded for it.
PeriodSummary(found) ==
    IF found # <<>>
    THEN [total_spent |-> Round2(SumSeq(AmountsOf(found)), 1),
          transaction_count |-> Len(found),
          average_transaction |-> Round2(SumSeq(AmountsOf(found)), Len(found)),
          top_category |-> MaxCategory(found),
          top_category_amount |-> Round2(CategoryTotals(found)[MaxCategory(found)], 1)]
    ELSE [total_spent |-> 0,
          transaction_count |-> 0,
          average_transaction |-> 0,
          top_category |-> None,
          top_category_amount |-> 0]

\* GET /summary
Route_get_spending_summary(u) ==
    /\ last' = [op |-> "summary", user |-> u,
                response |->
                    [success |-> TRUE,
                     data |-> [period_name \in DOMAIN SummaryPeriods |->
                                  PeriodSummary(find_by_user_id(
                                      u, now - SummaryPeriods[period_name],
                                      NoDate, None))]]]
    /\ UNCHANGED <<expenses, nextId, now>>
    /\ UNCHANGED reportVars

\* The periods in the order of the dict `periods`, the order of the loop.
PeriodOrder == <<"last_7_days", "last_30_days", "last_90_days">>

\* GET /summary, one load of the loop at a time: `now` is read once, then each
\* turn of the loop runs its own query on the collection as it is at that
\* moment.
Summary_load(u) ==
    /\ \/ /\ summary = IdleSummary
          /\ summary' = [state |-> "loading", user |-> u, now |-> now,
                          loaded |-> << PeriodSummary(find_by_user_id(
                                           u, now - SummaryPeriods[PeriodOrder[1]],
                                           NoDate, None)) >>]
       \/ /\ summary # IdleSummary
          /\ summary.user = u
          /\ Len(summary.loaded) < Len(PeriodOrder)
          /\ summary' = [summary EXCEPT !.loaded =
                Append(@, PeriodSummary(find_by_user_id(
                              u,
                              summary.now
                                  - SummaryPeriods[PeriodOrder[Len(summary.loaded) + 1]],
                              NoDate, None)))]
    /\ UNCHANGED <<expenses, nextId, now, last, reports, calls, batch>>

\* GET /summary: the response, after the last load.
Summary_respond ==
    /\ summary # IdleSummary
    /\ Len(summary.loaded) = Len(PeriodOrder)
    /\ last' = [op |-> "summary", user |-> summary.user,
                response |->
                    [success |-> TRUE,
                     data |-> [period_name \in DOMAIN SummaryPeriods |->
                                  summary.loaded[
                                      CHOOSE i \in 1..Len(PeriodOrder) :
                                          PeriodOrder[i] = period_name]]]]
    /\ summary' = IdleSummary
    /\ UNCHANGED <<expenses, nextId, now, reports, calls, batch>>

\* expenses[:5]: the first five of the list.
LastFive_first(found) ==
    SubSeq(found, 1, IF Len(found) > 5 THEN 5 ELSE Len(found))

\* expenses[-5:]: the last five of the list, all of it when it has fewer.
LastFive(found) ==
    SubSeq(found, IF Len(found) > 5 THEN Len(found) - 4 ELSE 1, Len(found))

\* The answer for a category without expenses, as a failure.
EmptyInsights_failure(category) ==
    [success |-> FALSE, message |-> <<"failed_to_get_insights">>, status |-> 500]

\* The answer for a category without expenses in the last 30 days.
EmptyInsights(category) ==
    [success |-> TRUE,
     data |-> [category |-> category,
               message |-> <<"no_expenses_found", category>>,
               total_spent |-> 0,
               transaction_count |-> 0]]

\* GET /category/<category>
Route_get_category_insights(u, category) ==
    LET thirty_days_ago == now - WindowDays
        found == find_by_user_id(u, thirty_days_ago, NoDate, category)
        amounts == AmountsOf(found)
    IN  /\ last' = [op |-> "insights", user |-> u, category |-> category,
                    found |-> found,
                    response |->
                        IF found = <<>> THEN EmptyInsights(category)
                        ELSE [success |-> TRUE,
                              data |-> [category |-> category,
                                        total_spent |-> Round2(SumSeq(amounts), 1),
                                        transaction_count |-> Len(found),
                                        average_transaction |->
                                            Round2(SumSeq(amounts), Len(amounts)),
                                        highest_expense |-> SeqMax(amounts),
                                        lowest_expense |-> SeqMin(amounts),
                                        daily_average |->
                                            Round2(SumSeq(amounts), WindowDays),
                                        recent_transactions |->
                                            [i \in 1..Len(LastFive(found)) |->
                                                to_dict(LastFive(found)[i])]]]]
        /\ UNCHANGED <<expenses, nextId, now>>
        /\ UNCHANGED reportVars

\* Time passes.
Tick ==
    /\ now < FirstNow + MaxTicks * TickDays
    /\ now' = now + TickDays
    /\ UNCHANGED <<expenses, nextId, last>>
    /\ UNCHANGED reportVars

-----------------------------------------------------------------------------
(* routes/reports.py: monthly reports *)

\* The month of a date, and the first day of a month and of the month after it
\* (datetime(year, month, 1); datetime(year + 1, 1, 1) after December).
MonthOf(d) ==
    CHOOSE m \in 1..12 :
        /\ Date(CalendarYear(d), m, 1) <= d
        /\ (m = 12 \/ d < Date(CalendarYear(d), m + 1, 1))

MonthStart(year, month) == Date(year, month, 1)

MonthEnd(year, month) ==
    IF month = 12 THEN Date(year, 12, 1) + 31 ELSE Date(year, month + 1, 1)

\* get_monthly_expenses: the user's documents with start_date <= date <
\* end_date; a failed read is logged and answered with the empty list.
get_monthly_expenses(user_id, month, year, mongo_ok) ==
    IF ~mongo_ok THEN <<>>
    ELSE NaturalOrder({e \in expenses :
                          /\ e.user_id = user_id
                          /\ e.date >= MonthStart(year, month)
                          /\ e.date < MonthEnd(year, month)})

\* calculate_report_data: the empty result has three keys, the full one five.
calculate_report_data(found) ==
    IF found = <<>>
    THEN [totalSpent |-> 0, topCategory |-> None, overbudgetCategories |-> <<>>]
    ELSE [totalSpent |-> SumSeq(AmountsOf(found)),
          topCategory |-> MaxCategory(found),
          overbudgetCategories |-> <<>>,
          categoryBreakdown |-> CategoryTotals(found),
          transactionCount |-> Len(found)]

\* save_monthly_report raises when the store cannot be reached and when
\* report_data lacks a key the INSERT reads; nothing is committed then.
SaveRaises(report_data, pg_ok) ==
    \/ ~pg_ok
    \/ ~({"totalSpent", "topCategory", "overbudgetCategories",
          "categoryBreakdown", "transactionCount"} \subseteq DOMAIN report_data)

\* A value stored in a DECIMAL(10,2) column: rounded to 2 decimals, halves up.
Decimal2(amount) == 10 * ((amount + 5) \div 10)

\* The row the INSERT writes.
ReportRow(user_id, month, year, report_data) ==
    [user_id |-> user_id, month |-> month, year |-> year,
     total_spent |-> Decimal2(report_data.totalSpent),
     top_category |-> report_data.topCategory,
     overbudget_categories |-> report_data.overbudgetCategories,
     category_breakdown |-> report_data.categoryBreakdown,
     transaction_count |-> report_data.transactionCount,
     created_at |-> now]

SameKey(r, user_id, month, year) ==
    r.user_id = user_id /\ r.month = month /\ r.year = year

\* INSERT without the ON CONFLICT clause and the UNIQUE constraint it rests on.
Upsert_insert(user_id, month, year, report_data) ==
    reports \cup {ReportRow(user_id, month, year, report_data)}

\* INSERT ... ON CONFLICT (user_id, month, year) DO UPDATE: the table after it.
Upsert(user_id, month, year, report_data) ==
    {r \in reports : ~SameKey(r, user_id, month, year)}
        \cup {ReportRow(user_id, month, year, report_data)}

\* The table after save_monthly_report, which changes nothing when it raises.
save_monthly_report(user_id, month, year, report_data, pg_ok) ==
    IF SaveRaises(report_data, pg_ok) THEN reports
    ELSE Upsert(user_id, month, year, report_data)

\* What generate_monthly_report returns: report_data, or None after a failure.
ReportResult(report_data, pg_ok) ==
    IF SaveRaises(report_data, pg_ok) THEN <<>> ELSE report_data

\* if report_data: a dict is true when it has keys; None is not.
Truthy(report_data) == DOMAIN report_data # {}

\* The months a report is asked for, and a month the route rejects.
ReportMonths == {<<2, 2025>>, <<3, 2025>>, <<13, 2025>>}

\* POST /reports/generate, first half: the body is validated, the month's
\* expenses are fetched and the report is calculated.
Route_generate_report_begin(w, u, month, year, mongo_ok) ==
    /\ calls[w] = NoCall
    /\ IF ~(1 <= month /\ month <= 12) \/ year < 2020 \/ year > CalendarYear(now)
       THEN /\ last' = [op |-> "report", user |-> u, month |-> month, year |-> year,
                        report_data |-> <<>>, pg_ok |-> TRUE,
                        response |-> [status |-> 400]]
            /\ UNCHANGED calls
       ELSE /\ calls' = [calls EXCEPT ![w] =
                           [user_id |-> u, month |-> month, year |-> year,
                            report_data |-> calculate_report_data(
                                get_monthly_expenses(u, month, year, mongo_ok))]]
            /\ UNCHANGED last
    /\ UNCHANGED <<expenses, nextId, now, reports, batch, summary>>

\* POST /reports/generate, second half: the report is saved and the call
\* answers with it, or with a failure when generate_monthly_report returned None.
Route_generate_report_commit(w, pg_ok) ==
    /\ calls[w] # NoCall
    /\ LET c == calls[w]
           result == ReportResult(c.report_data, pg_ok)
       IN  /\ reports' = save_monthly_report(c.user_id, c.month, c.year,
                                             c.report_data, pg_ok)
           /\ last' = [op |-> "report", user |-> c.user_id, month |-> c.month,
                       year |-> c.year, report_data |-> c.report_data,
                       pg_ok |-> pg_ok,
                       response |-> IF Truthy(result)
                                    THEN [status |-> 200, success |-> TRUE,
                                          data |-> result]
                                    ELSE [status |-> 500, success |-> FALSE]]
    /\ calls' = [calls EXCEPT ![w] = NoCall]
    /\ UNCHANGED <<expenses, nextId, now, batch, summary>>

\* db.users.find({}, {'_id': 1}): the registered users.
all_users == <<"u1", "u2">>

\* generate_all_monthly_reports up to its loop: the previous month, and the
\* user listing; when the listing raises, the job logs the error and ends.
Batch_start(listing_ok) ==
    /\ batch.state = "idle"
    /\ LET prev_month == IF MonthOf(now) = 1 THEN 12 ELSE MonthOf(now) - 1
           prev_year == IF MonthOf(now) = 1 THEN CalendarYear(now) - 1
                                            ELSE CalendarYear(now)
           users == IF listing_ok THEN all_users ELSE <<>>
       IN  batch' = [state |-> IF users = <<>> THEN "done" ELSE "running",
                     month |-> prev_month, year |-> prev_year,
                     users |-> users, attempted |-> <<>>,
                     success_count |-> 0, total |-> Len(users)]
    /\ UNCHANGED <<expenses, nextId, now, last, reports, calls, summary>>

\* Batch_user with the loop left at the first user whose report fails.
BatchAfter_aborting(saved) ==
    [batch EXCEPT !.users = IF saved THEN Tail(@) ELSE <<>>,
                  !.attempted = Append(@, Head(batch.users)),
                  !.success_count = IF saved THEN @ + 1 ELSE @,
                  !.state = IF ~saved \/ Tail(batch.users) = <<>> THEN "done"
                                                                  ELSE "running"]

\* The job after one round of its loop: the user is attempted, counted when
\* generate_monthly_report returned a report, and the loop goes on.
BatchAfter(saved) ==
    [batch EXCEPT !.users = Tail(@),
                  !.attempted = Append(@, Head(batch.users)),
                  !.success_count = IF saved THEN @ + 1 ELSE @,
                  !.state = IF Tail(batch.users) = <<>> THEN "done" ELSE "running"]

\* One round of the loop of generate_all_monthly_reports.
Batch_user(mongo_ok, pg_ok) ==
    /\ batch.state = "running"
    /\ LET user_id == Head(batch.users)
           report_data == calculate_report_data(
               get_monthly_expenses(user_id, batch.month, batch.year, mongo_ok))
       IN  /\ reports' = save_monthly_report(user_id, batch.month, batch.year,
                                             report_data, pg_ok)
           /\ batch' = BatchAfter(Truthy(ReportResult(report_data, pg_ok)))
    /\ UNCHANGED <<expenses, nextId, now, last, calls, summary>>

-----------------------------------------------------------------------------
(* auth/middleware.py *)

\* The tokens a client can send.  well_formed: the string is a JWT that can be
\* parsed; signed: its HS256 signature verifies with JWT_SECRET; expired: its
\* exp lies in the past; userId: the claim of the payload, None when the
\* payload has none, "u9" the id of no user, "bad" not an ObjectId at all.
Tokens ==
    [well_formed : BOOLEAN, signed : BOOLEAN, expired : BOOLEAN,
     userId : {"u1", "u9", "bad", None}]

\* The Authorization header: absent (or empty), or a string that split(' ')
\* cuts into `parts` pieces of which the first is `scheme` and the second,
\* when there is one, the token.
Headers ==
    [present : BOOLEAN, parts : 1..3, scheme : {"Bearer", "Basic"}, token : Tokens]

\* jwt.decode without the verification of the signature.
jwt_decode_unverified(token) ==
    IF ~token.well_formed THEN [error |-> "DecodeError", payload |-> <<>>]
    ELSE IF token.expired
    THEN [error |-> "ExpiredSignatureError", payload |-> <<>>]
    ELSE [error |-> None,
          payload |-> IF token.userId = None THEN <<>>
                      ELSE [userId |-> token.userId]]

\* jwt.decode(token, JWT_SECRET, algorithms=['HS256']): the payload, or the
\* error raised; the signature is verified before the claims.
jwt_decode(token) ==
    IF ~token.well_formed THEN [error |-> "DecodeError", payload |-> <<>>]
    ELSE IF ~token.signed
    THEN [error |-> "InvalidSignatureError", payload |-> <<>>]
    ELSE IF token.expired
    THEN [error |-> "ExpiredSignatureError", payload |-> <<>>]
    ELSE [error |-> None,
          payload |-> IF token.userId = None THEN <<>>
                      ELSE [userId |-> token.userId]]

\* User.find_by_id: ObjectId(user_id) raises for a string that is no ObjectId;
\* find_one gives the user or None.
User_find_by_id(user_id) ==
    IF user_id = "bad" THEN [raises |-> TRUE, user |-> None]
    ELSE [raises |-> FALSE, user |-> IF user_id \in Users THEN user_id ELSE None]

\* What a wrapped request comes to: how often the handler was invoked, the
\* status and message answered, the user set in g.
AuthResult(invoked, status, message, user) ==
    [invoked |-> invoked, status |-> status, message |-> message, user |-> user]

\* authenticate_token(f) called with a request; handler_raises: f raises.
authenticate_token(header, handler_raises) ==
    IF ~header.present THEN AuthResult(0, 401, "Access token required", None)
    ELSE IF header.parts # 2 \/ header.scheme # "Bearer"
    THEN AuthResult(0, 401, "Invalid token format", None)
    ELSE
    LET decoded == jwt_decode(header.token)
    IN  IF decoded.error = "ExpiredSignatureError"
        THEN AuthResult(0, 403, "Token expired", None)
        ELSE IF decoded.error # None
        THEN AuthResult(0, 403, "Invalid token", None)
        ELSE IF "userId" \notin DOMAIN decoded.payload
        THEN AuthResult(0, 403, "Authentication failed", None)
        ELSE
        LET found == User_find_by_id(decoded.payload.userId)
        IN  IF found.raises THEN AuthResult(0, 403, "Authentication failed", None)
            ELSE IF found.user = None THEN AuthResult(0, 401, "User not found", None)
            ELSE IF handler_raises
            THEN AuthResult(1, 403, "Authentication failed", found.user)
            ELSE AuthResult(1, 200, "handler", found.user)

\* optional_auth(f) called with a request; first_raises, second_raises: the
\* first and the second invocation of f raise.  The call of f inside the try
\* is followed, when anything raised before its return, by the call after the
\* except branch.
optional_auth(header, first_raises, second_raises) ==
    LET bearer == header.present /\ header.parts = 2 /\ header.scheme = "Bearer"
        decoded == jwt_decode(header.token)
        readable == decoded.error = None /\ "userId" \in DOMAIN decoded.payload
        found == IF bearer /\ readable
                 THEN User_find_by_id(decoded.payload.userId)
                 ELSE [raises |-> FALSE, user |-> None]
        auth_raises == bearer /\ (~readable \/ found.raises)
    IN  IF auth_raises
        THEN IF first_raises THEN AuthResult(1, 500, "handler raised", None)
             ELSE AuthResult(1, 200, "handler", None)
        ELSE IF ~first_raises THEN AuthResult(1, 200, "handler", found.user)
        ELSE IF second_raises THEN AuthResult(2, 500, "handler raised", found.user)
        ELSE AuthResult(2, 200, "handler", found.user)

\* A request to a route wrapped by authenticate_token.
Request_authenticated(header, handler_raises) ==
    /\ last' = [op |-> "authenticated", header |-> header,
                handler_raises |-> handler_raises,
                result |-> authenticate_token(header, handler_raises)]
    /\ UNCHANGED <<expenses, nextId, now>>
    /\ UNCHANGED reportVars

\* A request to a route wrapped by optional_auth.
Request_optional(header, first_raises, second_raises) ==
    /\ last' = [op |-> "optional", header |-> header,
                first_raises |-> first_raises,
                result |-> optional_auth(header, first_raises, second_raises)]
    /\ UNCHANGED <<expenses, nextId, now>>
    /\ UNCHANGED reportVars

-----------------------------------------------------------------------------
(* The service: an empty collection, then requests in any order *)

Init ==
    /\ expenses = {}
    /\ nextId = 1
    /\ now = FirstNow
    /\ last = NoFrame
    /\ ReportsInit

Next ==
    \/ \E r \in PostRequests :
          Route_create_expense(r.user, r.amount, r.category, r.date)
    \/ \E u \in Users, e \in expenses, a \in PutAmounts :
          Route_update_expense(u, e.id, a)
    \/ \E u \in Users, e \in expenses : Route_delete_expense(u, e.id)
    \/ \E u \in Users : Route_get_comprehensive_analysis(u)
    \/ \E u \in Users, days \in DaysChoices : Route_get_spending_trends(u, days)
    \/ Tick

Spec == Init /\ [][Next]_vars

\* The report routes on a collection that grows: expenses are created while
\* reports are generated, by two workers at a time.
NextReports ==
    \/ \E r \in PostRequests :
          Route_create_expense(r.user, r.amount, r.category, r.date)
    \/ \E w \in Workers, u \in Users, my \in ReportMonths, mongo_ok \in BOOLEAN :
          Route_generate_report_begin(w, u, my[1], my[2], mongo_ok)
    \/ \E w \in Workers, pg_ok \in BOOLEAN :
          Route_generate_report_commit(w, pg_ok)

SpecReports == Init /\ [][NextReports]_vars

\* A summary request in steps while expenses are created, updated
\* and deleted by other requests.
NextSummary ==
    \/ \E r \in PostRequests :
          Route_create_expense(r.user, r.amount, r.category, r.date)
    \/ \E u \in Users, e \in expenses, a \in PutAmounts :
          Route_update_expense(u, e.id, a)
    \/ \E u \in Users, e \in expenses : Route_delete_expense(u, e.id)
    \/ \E u \in Users : Summary_load(u)
    \/ Summary_respond

SpecSummary == Init /\ [][NextSummary]_vars

\* Two users at work on one collection: each creates expenses and asks for,
\* updates and deletes expenses by id, its own and the other's, and has its
\* expenses listed and analysed.
NextUsers ==
    \/ \E r \in PostRequests :
          Route_create_expense(r.user, r.amount, r.category, r.date)
    \/ \E u \in Users, id \in 1..MaxExpenses : Route_get_expense(u, id)
    \/ \E u \in Users, id \in 1..MaxExpenses, a \in PutAmounts :
          Route_update_expense_answered(u, id, a)
    \/ \E u \in Users, id \in 1..MaxExpenses : Route_delete_expense_answered(u, id)
    \/ \E u \in Users : Route_get_expenses(u, NoDate, NoDate)
    \/ \E u \in Users : Route_get_comprehensive_analysis(u)

SpecUsers == Init /\ [][NextUsers]_vars

\* Requests of every kind of header and token to wrapped routes.
NextAuth ==
    \/ \E header \in Headers, handler_raises \in BOOLEAN :
          Request_authenticated(header, handler_raises)
    \/ \E header \in Headers, first_raises \in BOOLEAN, second_raises \in BOOLEAN :
          Request_optional(header, first_raises, second_raises)

SpecAuth == Init /\ [][NextAuth]_vars

\* The scheduled job on stored data sets: on 2025-01-15 (the previous month is
\* December of the year before) or 2025-03-04, with any of four expenses
\* stored: one of each user in the previous month, one of u1 before it and one
\* of u1 after it.
BatchDays == {Date(2025, 1, 15), Date(2025, 3, 4)}

BatchSeedDocs(today) ==
    {ExpenseDoc(1, "u1", 350 * Mills, "Food", today - 20),
     ExpenseDoc(2, "u2", 650 * Mills, "Rent", today - 20),
     ExpenseDoc(3, "u1", 300 * Mills, "Food", today - 60),
     ExpenseDoc(4, "u1", 4, "Food", today)}

InitBatch ==
    \E today \in BatchDays :
        \E docs \in SUBSET BatchSeedDocs(today) :
            /\ expenses = docs
            /\ nextId = 5
            /\ now = today
            /\ last = NoFrame
            /\ ReportsInit

NextBatch ==
    \/ \E listing_ok \in BOOLEAN : Batch_start(listing_ok)
    \/ \E mongo_ok \in BOOLEAN, pg_ok \in BOOLEAN : Batch_user(mongo_ok, pg_ok)

\* The job is one thread of straight-line code: once started, it goes on.
SpecBatch == InitBatch /\ [][NextBatch]_vars /\ WF_vars(NextBatch)

-----------------------------------------------------------------------------
(* The analytics engine on stored data sets: a collection that already holds  *)
(* one user's expenses, then analysis requests.  Three families of data sets. *)

EngineUser == "u1"

\* (1) One expense per week over consecutive weeks, from a Monday: 2024-12-16
\* (ISO week 51: the weeks run across the year boundary) or 2025-02-03 (week 6:
\* the weeks run from one-digit to two-digit numbers).  The weekly totals are in
\* currency units.
SeedStarts == {Date(2024, 12, 16), Date(2025, 2, 3)}
WeekAmounts == {90, 100, 110, 200}

WeekSeedDocs(start, totals) ==
    {ExpenseDoc(i, EngineUser, totals[i] * Mills, "Food", start + 7 * (i - 1)) :
        i \in 1..Len(totals)}

InitWeeks ==
    \E start \in SeedStarts, k \in 1..MaxWeeks :
        \E totals \in [1..k -> WeekAmounts] :
            /\ expenses = WeekSeedDocs(start, totals)
            /\ nextId = k + 1
            /\ now = start + 7 * (k - 1) + 2
            /\ last = NoFrame
            /\ ReportsInit

\* (1b) As (1) with weekly totals of 100 or 200 only.
FewAmounts == {100, 200}

InitFewWeeks ==
    \E start \in SeedStarts, k \in 1..MaxWeeks :
        \E totals \in [1..k -> FewAmounts] :
            /\ expenses = WeekSeedDocs(start, totals)
            /\ nextId = k + 1
            /\ now = start + 7 * (k - 1) + 2
            /\ last = NoFrame
            /\ ReportsInit

\* (2) Up to MaxSeedCats categories, the i-th named CategoryNames[i]; each has
\* `count` expenses of `amount` mills in the first or the second of two weeks
\* (count 0: the category is absent).
SeedEntries ==
    { [amount |-> 0, count |-> 0, week |-> 1],
      [amount |-> 350 * Mills, count |-> 1, week |-> 1],
      [amount |-> 650 * Mills, count |-> 1, week |-> 2],
      [amount |-> 300 * Mills, count |-> 1, week |-> 1],
      [amount |-> 12500, count |-> FrequencyThreshold + 1, week |-> 2] }

CatSeedBase == Date(2025, 4, 7)

CatSeedDocs(seed) ==
    UNION { {ExpenseDoc((i - 1) * (FrequencyThreshold + 1) + j, EngineUser,
                        seed[i].amount, CategoryNames[i],
                        CatSeedBase + 7 * (seed[i].week - 1)) :
                 j \in 1..seed[i].count} :
            i \in DOMAIN seed }

InitCats ==
    \E seed \in [1..MaxSeedCats -> SeedEntries] :
        /\ expenses = CatSeedDocs(seed)
        /\ nextId = MaxSeedCats * (FrequencyThreshold + 1) + 1
        /\ now = CatSeedBase + 8
        /\ last = NoFrame
        /\ ReportsInit

\* (3) n categories with one expense of the same amount each (mills).
EqualAmounts == {4, Mills, 100 * Mills}

InitEqual ==
    \E n \in 1..MaxEqualCats, a \in EqualAmounts :
        /\ expenses = {ExpenseDoc(i, EngineUser, a, CategoryNames[i], CatSeedBase) :
                           i \in 1..n}
        /\ nextId = n + 1
        /\ now = CatSeedBase + 1
        /\ last = NoFrame
        /\ ReportsInit

\* (4) As (2) with up to MaxFaultCats categories, analysed while a stage fails.
MaxFaultCats == 3

InitFaults ==
    \E seed \in [1..MaxFaultCats -> SeedEntries] :
        /\ expenses = CatSeedDocs(seed)
        /\ nextId = MaxFaultCats * (FrequencyThreshold + 1) + 1
        /\ now = CatSeedBase + 8
        /\ last = NoFrame
        /\ ReportsInit

NextFaults ==
    \E fault \in StageFaults :
        Route_get_comprehensive_analysis_failing(EngineUser, fault)

SpecFaults == InitFaults /\ [][NextFaults]_vars

\* (5) Records read back by the listing, summary and category routes on
\* 2025-03-04: up to MaxFoodDocs Food expenses on consecutive days back from
\* today, and any of one expense each 8, 30, 45 and 91 days old and the second
\* user's expense of yesterday.  The Food amounts are not whole cents.
MaxFoodDocs == 6

FoodSeedDocs(n) ==
    {ExpenseDoc(i, "u1", i * 10 * Mills + 5, "Food", FirstNow - (i - 1)) :
        i \in 1..n}

OtherSeedDocs ==
         {ExpenseDoc(MaxFoodDocs + 1, "u1", 650 * Mills, "Rent", FirstNow - 8),
          ExpenseDoc(MaxFoodDocs + 2, "u1", 4, "food", FirstNow - 30),
          ExpenseDoc(MaxFoodDocs + 3, "u1", 700 * Mills, "Travel", FirstNow - 45),
          ExpenseDoc(MaxFoodDocs + 4, "u1", 900 * Mills, "Bills", FirstNow - 91),
          ExpenseDoc(MaxFoodDocs + 5, "u2", 350 * Mills, "Food", FirstNow - 1)}

InitReads ==
    \E n \in 0..MaxFoodDocs, docs \in SUBSET OtherSeedDocs :
        /\ expenses = FoodSeedDocs(n) \cup docs
        /\ nextId = MaxFoodDocs + 6
        /\ now = FirstNow
        /\ last = NoFrame
        /\ ReportsInit

\* The start_date and end_date parameters of the listing requests.
ListWindows ==
    {<<NoDate, NoDate>>, <<FirstNow - 5, FirstNow - 2>>, <<NoDate, FirstNow - 1>>}

\* The categories asked for: two with expenses and one without.
InsightCategories == {"Food", "Rent", "Gifts"}

NextReads ==
    \/ \E u \in Users, w \in ListWindows : Route_get_expenses(u, w[1], w[2])
    \/ \E u \in Users : Route_get_spending_summary(u)
    \/ \E u \in Users, c \in InsightCategories : Route_get_category_insights(u, c)

SpecReads == InitReads /\ [][NextReads]_vars

\* (6) As (2) with MaxFreqCats categories of 1, 15 or 16 expenses each: at
\* and above the threshold of the consolidation tip, with totals below and
\* above those of the categories of one expense.
MaxFreqCats == 4

FreqEntries ==
    { [amount |-> 350 * Mills, count |-> 1, week |-> 1],
      [amount |-> 20 * Mills, count |-> FrequencyThreshold, week |-> 2],
      [amount |-> 12500, count |-> FrequencyThreshold + 1, week |-> 2],
      [amount |-> 40 * Mills, count |-> FrequencyThreshold + 1, week |-> 1] }

InitFreq ==
    \E seed \in [1..MaxFreqCats -> FreqEntries] :
        /\ expenses = CatSeedDocs(seed)
        /\ nextId = MaxFreqCats * (FrequencyThreshold + 1) + 1
        /\ now = CatSeedBase + 8
        /\ last = NoFrame
        /\ ReportsInit

NextEngine ==
    \/ Route_get_comprehensive_analysis(EngineUser)
    \/ \E days \in DaysChoices : Route_get_spending_trends(EngineUser, days)

SpecWeeks == InitWeeks /\ [][NextEngine]_vars

SpecCats == InitCats /\ [][NextEngine]_vars

SpecEqual == InitEqual /\ [][NextEngine]_vars

SpecFreq == InitFreq /\ [][NextEngine]_vars

SpecFewWeeks == InitFewWeeks /\ [][NextEngine]_vars

-----------------------------------------------------------------------------
(* Properties.  A frame `last` with op "comprehensive" or "trends" holds the  *)
(* DataFrame the request loaded and the response it returned.                 *)

Answered == last.op \in {"comprehensive", "trends"}
Comprehensive == last.op = "comprehensive"
LastData == last.response.data
LastTrends == last.response.data.trends

\* x is n/d rounded to 2 decimals (x and n/d in mills): a whole number of cents
\* nearest to n/d, whichever way a tie goes.
IsRound2(x, n, d) == x % 10 = 0 /\ 2 * Abs(x * d - n) <= 10 * d

\* The weeks of a DataFrame in time order: the Mondays that start them.
ChronoWeeks(df) ==
    LET S == {WeekStart(df[i].date) : i \in 1..Len(df)}
    IN  [k \in 1..Cardinality(S) |->
            CHOOSE w \in S : Cardinality({v \in S : v < w}) = k - 1]

\* The total of the week that starts on Monday w.
ChronoTotal(df, w) ==
    SumSeq(AmountsOf(SelectSeq(df, LAMBDA r : WeekStart(r.date) = w)))

(* C1: in get_spending_trends the week keys are ordered chronologically before
   the windows are taken: for a record set covering five distinct weeks with
   chronological weekly totals t1..t5, recent_weekly_avg = (t4+t5)/2 and
   earlier_weekly_avg = (t1+t2)/2, whichever calendar weeks they are; totals
   100,100,100,200,200 give the label "increasing". *)
C1_ChronologicalWindows ==
    (Answered /\ last.df # <<>> /\ Len(ChronoWeeks(last.df)) = 5) =>
        LET w == ChronoWeeks(last.df)
            t == [k \in 1..5 |-> ChronoTotal(last.df, w[k])]
        IN  /\ IsRound2(LastTrends.recent_weekly_avg, t[4] + t[5], 2)
            /\ IsRound2(LastTrends.earlier_weekly_avg, t[1] + t[2], 2)
            /\ (t = <<100 * Mills, 100 * Mills, 100 * Mills, 200 * Mills, 200 * Mills>>
                    => LastTrends.trend = "increasing")

\* The two windows of a returned trend report: the sums and lengths of the
\* last two and the first two (or first one) of its sorted week keys.
C2_Recent == RecentWeeks(SortedWeeks(LastTrends.weekly_spending))
C2_Earlier == EarlierWeeks(SortedWeeks(LastTrends.weekly_spending))
C2_RecentSum == WindowSum(LastTrends.weekly_spending, C2_Recent)
C2_EarlierSum == WindowSum(LastTrends.weekly_spending, C2_Earlier)

\* recent_weekly_avg > earlier_weekly_avg * 1.10, the averages being the
\* quotients of the sums by the lengths
C2_Above ==
    C2_RecentSum * Len(C2_Earlier) * 100 > C2_EarlierSum * Len(C2_Recent) * 110

\* recent_weekly_avg < earlier_weekly_avg * 0.90
C2_Below ==
    C2_RecentSum * Len(C2_Earlier) * 100 < C2_EarlierSum * Len(C2_Recent) * 90

(* C2: for every record set with at least 2 distinct week keys the label is
   "increasing" iff recent_weekly_avg > earlier_weekly_avg * 1.10, "decreasing"
   iff recent_weekly_avg < earlier_weekly_avg * 0.90, and "stable" in every
   other case, equality with either bound included. *)
C2_TrendThresholds ==
    (Answered /\ last.df # <<>>
        /\ Cardinality(DOMAIN LastTrends.weekly_spending) >= 2) =>
        /\ LastTrends.trend \in {"increasing", "decreasing", "stable"}
        /\ (LastTrends.trend = "increasing" <=> C2_Above)
        /\ (LastTrends.trend = "decreasing" <=> C2_Below)
        /\ (LastTrends.trend = "stable" <=> (~C2_Above /\ ~C2_Below))

\* Reached: a report whose recent average is exactly 1.10 times the earlier
\* one, labelled "stable".
C2_Witness ==
    /\ Answered /\ last.df # <<>>
    /\ Cardinality(DOMAIN LastTrends.weekly_spending) >= 4
    /\ C2_RecentSum * Len(C2_Earlier) * 100 = C2_EarlierSum * Len(C2_Recent) * 110
    /\ LastTrends.trend = "stable"


(* C3: the reported daily_average is the sum of all record amounts divided by
   the window length in days (30 for the comprehensive analysis, the `days`
   query parameter for the trends endpoint), rounded to 2 decimals, however
   many distinct days have records. *)
C3_WindowDailyAverage ==
    (Answered /\ last.df # <<>>) =>
        IsRound2(LastTrends.daily_average, TotalOf(last.df), last.days)

\* The categories of the returned category_analysis and the sum of their
\* percentage_of_total, in hundredths of a percent.
LastCategories == DictKeys(LastData.category_analysis)
PercentageSum ==
    SumSeq([i \in 1..Len(LastCategories) |->
               LastData.category_analysis[LastCategories[i]].percentage_of_total])
AllPositive(df) == \A i \in 1..Len(df) : df[i].amount > 0
WholeCents(df) == \A i \in 1..Len(df) : df[i].amount % 10 = 0

(* C4 as stated: for every non-empty record set with all amounts > 0 the
   percentage_of_total values sum to 100 within 0.1, for any number of
   categories. *)
C4_SumWithinTenth ==
    (Comprehensive /\ last.df # <<>> /\ AllPositive(last.df)) =>
        Abs(PercentageSum - 100 * 100) <= 10

(* C4, amended: for every non-empty record set with all amounts > 0 and n
   categories the percentage_of_total values sum to 100 within
   n * (0.005 + 0.5 / total_spending); when every amount is a whole number of
   cents, within n * 0.005, which is within 0.1 for up to 20 categories. *)
C4_SumWithinRoundingBound ==
    (Comprehensive /\ last.df # <<>> /\ AllPositive(last.df)) =>
        LET n == Len(LastCategories)
            T == TotalOf(last.df)
            e == Abs(PercentageSum - 100 * 100)
        IN  /\ 2 * T * e <= n * (T + 100 * Mills)
            /\ WholeCents(last.df) => 2 * e <= n
            /\ (WholeCents(last.df) /\ n <= 20) => e <= 10

\* Reached: 31 categories of 100.00 each, 3.23 percent each, 100.13 in sum.
C4_Witness ==
    /\ Comprehensive /\ last.df # <<>> /\ AllPositive(last.df)
    /\ Len(LastCategories) = 31
    /\ PercentageSum = 10013

\* The amounts of the records of df whose category string is exactly c.
AmountsIn(df, c) == AmountsOf(SelectSeq(df, LAMBDA r : r.category = c))

(* C5 as stated: for every record set and every category c in it there is an
   entry for c whose total_spent equals the sum of the amounts of exactly the
   records whose category equals c (case-sensitive) and whose
   transaction_count is the number of those records, and there is no entry
   for a category without records. *)
C5_ExactTotals ==
    (Comprehensive /\ last.df # <<>>) =>
        /\ DOMAIN LastData.category_analysis = CategoriesOf(last.df)
        /\ \A c \in CategoriesOf(last.df) :
              /\ LastData.category_analysis[c].total_spent = SumSeq(AmountsIn(last.df, c))
              /\ LastData.category_analysis[c].transaction_count = Len(AmountsIn(last.df, c))

(* C5, amended: as C5, with total_spent the sum of those amounts rounded to
   2 decimals (equal to the sum when the amounts are whole cents). *)
C5_RoundedTotals ==
    (Comprehensive /\ last.df # <<>>) =>
        /\ DOMAIN LastData.category_analysis = CategoriesOf(last.df)
        /\ \A c \in CategoriesOf(last.df) :
              /\ IsRound2(LastData.category_analysis[c].total_spent,
                          SumSeq(AmountsIn(last.df, c)), 1)
              /\ WholeCents(last.df) =>
                    LastData.category_analysis[c].total_spent = SumSeq(AmountsIn(last.df, c))
              /\ LastData.category_analysis[c].transaction_count = Len(AmountsIn(last.df, c))

\* Reached: "Food" and "food" analysed as two categories, one record each.
C5_Witness ==
    /\ Comprehensive /\ last.df # <<>>
    /\ DOMAIN LastData.category_analysis = {"Food", "food"}
    /\ LastData.category_analysis["Food"].total_spent = 350 * Mills
    /\ LastData.category_analysis["food"].total_spent = 650 * Mills


(* C6: two calls of get_comprehensive_analysis for the same user, on the same
   stored expenses and with the same 30-day cutoff, return the same
   category_analysis and the same trends: the first call leaves nothing behind
   that changes the second. *)
C6_Idempotent ==
    [][(/\ last.op = "comprehensive" /\ last'.op = "comprehensive"
        /\ last'.user = last.user
        /\ expenses' = expenses /\ now' = now
        /\ last.df = RowsOf(find_by_user_id(last.user, now - 30, NoDate, None)))
       => /\ last'.response.data.category_analysis
                = last.response.data.category_analysis
          /\ last'.response.data.trends = last.response.data.trends
          /\ last'.response.data.suggestions = last.response.data.suggestions
          /\ last'.df = last.df]_vars

\* Reached: a second analysis of the same, non-empty record set.
C6_Witness ==
    /\ Comprehensive /\ last.repeat
    /\ last.df # <<>>
    /\ DOMAIN LastData.category_analysis # {}

(* C7: when the loader returns zero records, get_comprehensive_analysis
   returns a successful result with total_expenses 0, expense_count 0, empty
   category_analysis and trends, exactly one suggestion, of kind info and
   priority low, period "30 days", and no top_category. *)
C7_EmptyResult ==
    (Comprehensive /\ last.df = <<>>) =>
        /\ last.response.success = TRUE
        /\ LastData.total_expenses = 0
        /\ LastData.expense_count = 0
        /\ DOMAIN LastData.category_analysis = {}
        /\ DOMAIN LastData.trends = {}
        /\ Len(LastData.suggestions) = 1
        /\ LastData.suggestions[1].type = "info"
        /\ LastData.suggestions[1].priority = "low"
        /\ LastData.period = "30 days"
        /\ DictGet(LastData, "top_category") = None

\* Reached: an analysis for a user without expenses in the window while the
\* collection holds expenses (another user's, or older ones).
C7_Witness ==
    /\ Comprehensive /\ last.df = <<>>
    /\ expenses # {}
    /\ Len(LastData.suggestions) = 1

\* The share-based suggestions about category c: those of the rules that
\* report a category and its current_spending.
ShareBased(s) == "category" \in DOMAIN s /\ "current_spending" \in DOMAIN s
C8_Shares(c) ==
    SelectSeq(LastData.suggestions, LAMBDA s : ShareBased(s) /\ s.category = c)

\* The number of categories ranked before c by total_spent: those of a larger
\* total, and those of the same total that come earlier in the analysis.
C8_Ahead(c) ==
    LET ca == LastData.category_analysis
    IN  Cardinality({d \in DOMAIN ca :
            \/ ca[d].total_spent > ca[c].total_spent
            \/ (ca[d].total_spent = ca[c].total_spent /\ CatRank(d) < CatRank(c))})

(* C8: only the three categories of largest total_spent are examined for
   share-based suggestions: each of them with percentage_of_total > 30 gets
   one warning/high suggestion with suggested_reduction = total_spent * 0.175
   rounded to 2 decimals, each with 20 < percentage_of_total <= 30 gets one
   tip/medium suggestion, each with percentage_of_total <= 20 gets none, and a
   category ranked fourth or lower gets none.  Food 350 with Rent 650 gives a
   Food warning with 61.25. *)
C8_ShareRules ==
    (Comprehensive /\ last.df # <<>>) =>
        LET ca == LastData.category_analysis
        IN  /\ \A c \in DOMAIN ca :
                  LET sh == C8_Shares(c)
                      p  == ca[c].percentage_of_total
                  IN  IF C8_Ahead(c) < 3 /\ p > 30 * 100
                      THEN /\ Len(sh) = 1
                           /\ sh[1].type = "warning" /\ sh[1].priority = "high"
                           /\ IsRound2(sh[1].suggested_reduction,
                                       ca[c].total_spent * 175, 1000)
                      ELSE IF C8_Ahead(c) < 3 /\ p > 20 * 100
                      THEN /\ Len(sh) = 1
                           /\ sh[1].type = "tip" /\ sh[1].priority = "medium"
                      ELSE sh = <<>>
            /\ \A i \in 1..Len(LastData.suggestions) :
                  ShareBased(LastData.suggestions[i])
                      => LastData.suggestions[i].category \in DOMAIN ca
            /\ (/\ DOMAIN ca = {"Food", "Rent"}
                /\ ca["Food"].total_spent = 350 * Mills
                /\ ca["Rent"].total_spent = 650 * Mills)
               => /\ Len(C8_Shares("Food")) = 1
                  /\ C8_Shares("Food")[1].type = "warning"
                  /\ C8_Shares("Food")[1].suggested_reduction = 61250

\* Reached: Food 350 and Rent 650 analysed, with the Food warning of 61.25.
C8_Witness ==
    /\ Comprehensive /\ last.df # <<>>
    /\ DOMAIN LastData.category_analysis = {"Food", "Rent"}
    /\ LastData.category_analysis["Food"].total_spent = 350 * Mills
    /\ LastData.category_analysis["Rent"].total_spent = 650 * Mills
    /\ Len(C8_Shares("Food")) = 1
    /\ C8_Shares("Food")[1].suggested_reduction = 61250

\* The budget suggestions of the returned list.
C9_Budgets == SelectSeq(LastData.suggestions, LAMBDA s : s.type = "budget")

(* C9: for every non-empty category_analysis there is exactly one
   budget/medium suggestion when total_spending > 0 and none when
   total_spending = 0; its suggested_budget is total_spending * 0.90 rounded
   to 2 decimals; total_spending 1000 gives 900.0. *)
C9_BudgetRule ==
    (Comprehensive /\ last.df # <<>>) =>
        LET T == TotalOf(last.df)
        IN  /\ T > 0 => /\ Len(C9_Budgets) = 1
                        /\ C9_Budgets[1].priority = "medium"
                        /\ IsRound2(C9_Budgets[1].suggested_budget, T * 9, 10)
            /\ T = 0 => C9_Budgets = <<>>
            /\ T = 1000 * Mills => C9_Budgets[1].suggested_budget = 900 * Mills

\* Reached: total_spending 1000 analysed, with the budget of 900.
C9_Witness ==
    /\ Comprehensive /\ last.df # <<>>
    /\ TotalOf(last.df) = 1000 * Mills
    /\ Len(C9_Budgets) = 1
    /\ C9_Budgets[1].suggested_budget = 900 * Mills

\* The priority rank of a suggestion: high 3, medium 2, low 1.
C10_Rank(s) ==
    IF s.priority = "high" THEN 3 ELSE IF s.priority = "medium" THEN 2 ELSE 1

\* The place of a suggestion in the order the rules are evaluated: the
\* share-based ones in top-3 rank order, then the trend one, then the
\* high-frequency ones in the order of the analysis, then the budget one.
C10_Place(s) ==
    IF ShareBased(s) THEN 100 + C8_Ahead(s.category)
    ELSE IF "trend" \in DOMAIN s THEN 200
    ELSE IF "transaction_count" \in DOMAIN s THEN 300 + CatRank(s.category)
    ELSE IF s.type = "budget" THEN 400
    ELSE 500

(* C10: the returned suggestions are ordered by priority rank descending
   (high before medium before low), and two suggestions of equal priority
   appear in the order their rules were evaluated: share-based (top-3 rank
   order), then trend, then high-frequency, then budget. *)
C10_PriorityOrder ==
    (Comprehensive /\ last.df # <<>>) =>
        \A i, j \in 1..Len(LastData.suggestions) :
            i < j =>
                LET a == LastData.suggestions[i]
                    b == LastData.suggestions[j]
                IN  \/ C10_Rank(a) > C10_Rank(b)
                    \/ (C10_Rank(a) = C10_Rank(b) /\ C10_Place(a) < C10_Place(b))

\* Reached: a list with a share warning, the trend alert, a share tip, a
\* high-frequency tip and the budget suggestion, in that order.
C10_Witness ==
    /\ Comprehensive /\ last.df # <<>>
    /\ Len(LastData.suggestions) = 5
    /\ [i \in 1..5 |-> LastData.suggestions[i].type]
           = <<"warning", "alert", "tip", "tip", "budget">>
    /\ ShareBased(LastData.suggestions[3])
    /\ "transaction_count" \in DOMAIN LastData.suggestions[4]


\* An analysis of a non-empty record set during which a stage failed.
Failing == last.op = "comprehensive_failing" /\ last.df # <<>>

\* A rule of the suggestion stage fails on what it is given: the entry of a
\* category lacks transaction_count, the entry of one of the three categories
\* examined lacks percentage_of_total, or the report of an increasing or
\* decreasing trend lacks a weekly average.
C11_RuleFails ==
    \/ /\ last.fault.stage = "entry"
       /\ last.fault.category \in CategoriesOf(last.df)
       /\ \/ last.fault.field = "transaction_count"
          \/ last.fault.field = "percentage_of_total" /\ C8_Ahead(last.fault.category) < 3
    \/ /\ last.fault.stage = "report"
       /\ last.fault.field = "earlier_weekly_avg"
       /\ get_spending_trends(last.df).trend \in {"increasing", "decreasing"}

(* C11: generate_smart_suggestions never propagates a failure: whenever a rule
   evaluation fails internally (an entry or the trend report lacking a field
   the rule reads) it returns exactly one suggestion, of kind error and
   priority low, and get_comprehensive_analysis still returns a successful
   result with the computed totals, category_analysis and trends. *)
C11_SuggestionFailureContained ==
    (Failing /\ C11_RuleFails) =>
        /\ Len(LastData.suggestions) = 1
        /\ LastData.suggestions[1].type = "error"
        /\ LastData.suggestions[1].priority = "low"
        /\ last.response.success = TRUE
        /\ IsRound2(LastData.total_expenses, TotalOf(last.df), 1)
        /\ LastData.expense_count = Len(last.df)
        /\ DOMAIN LastData.category_analysis = CategoriesOf(last.df)
        /\ \A c \in CategoriesOf(last.df) :
              IsRound2(LastData.category_analysis[c].total_spent,
                       SumSeq(AmountsIn(last.df, c)), 1)
        /\ DOMAIN LastTrends.weekly_spending
               = {YearWeekKey(last.df[i].date) : i \in 1..Len(last.df)}

\* Reached: an analysis in which the frequency rule failed on an entry without
\* transaction_count, answered with the one error suggestion.
C11_Witness ==
    /\ Failing /\ C11_RuleFails
    /\ last.fault.field = "transaction_count"
    /\ last.response.success = TRUE
    /\ LastData.suggestions[1].type = "error"

(* C12: the stages degrade independently: when category aggregation fails the
   result still holds the computed trends, with category_analysis empty; when
   trend computation fails it still holds the category_analysis, with trends
   empty; in neither case is the result a failure. *)
C12_StagesIndependent ==
    Failing =>
        /\ last.fault.stage = "categories" =>
              /\ last.response.success = TRUE
              /\ DOMAIN LastData.category_analysis = {}
              /\ DOMAIN LastTrends.weekly_spending
                     = {YearWeekKey(last.df[i].date) : i \in 1..Len(last.df)}
              /\ IsRound2(LastTrends.daily_average, TotalOf(last.df), 30)
              /\ LastTrends.trend
                     \in {"increasing", "decreasing", "stable", "insufficient_data"}
        /\ last.fault.stage = "trends" =>
              /\ last.response.success = TRUE
              /\ DOMAIN LastData.trends = {}
              /\ DOMAIN LastData.category_analysis = CategoriesOf(last.df)
              /\ \A c \in CategoriesOf(last.df) :
                    /\ IsRound2(LastData.category_analysis[c].total_spent,
                                SumSeq(AmountsIn(last.df, c)), 1)
                    /\ LastData.category_analysis[c].transaction_count
                           = Len(AmountsIn(last.df, c))

\* Reached: an analysis whose trend stage failed, answered with two categories
\* analysed and no trends.
C12_Witness ==
    /\ Failing /\ last.fault.stage = "trends"
    /\ last.response.success = TRUE
    /\ Cardinality(DOMAIN LastData.category_analysis) = 2
    /\ DOMAIN LastData.trends = {}


\* The rows of the table under one key.
RowsFor(table, user_id, month, year) ==
    {r \in table : SameKey(r, user_id, month, year)}

\* At most one row per (user_id, month, year).
C13_Unique ==
    \A r1, r2 \in reports :
        SameKey(r1, r2.user_id, r2.month, r2.year) => r1 = r2

\* A step changes the rows of a key only by committing a call for that key,
\* and then the key's one row carries that call's totals.
C13_Step ==
    \A r \in reports \cup reports' :
        LET before == RowsFor(reports, r.user_id, r.month, r.year)
            after  == RowsFor(reports', r.user_id, r.month, r.year)
        IN  \/ after = before
            \/ \E w \in Workers :
                  /\ calls[w] # NoCall /\ calls'[w] = NoCall
                  /\ SameKey(r, calls[w].user_id, calls[w].month, calls[w].year)
                  /\ Cardinality(after) = 1
                  /\ \A a \in after :
                        /\ IsRound2(a.total_spent, calls[w].report_data.totalSpent, 1)
                        /\ a.top_category = calls[w].report_data.topCategory
                        /\ a.transaction_count = calls[w].report_data.transactionCount
                        /\ a.category_breakdown = calls[w].report_data.categoryBreakdown

(* C13: after any sequence of generate_monthly_report calls, one after the
   other or interleaved, the report store holds at most one snapshot per
   (user_id, month, year), the snapshot carries the totals of the call
   committed last for that key, and a call for one key never changes the
   snapshot of another key. *)
C13_OneSnapshotPerKey == []C13_Unique /\ [][C13_Step]_vars

\* Reached: a snapshot of two transactions is stored while a call for the same
\* key that counted one transaction, so began before, is still to commit.
C13_Witness ==
    \E r \in reports, w \in Workers :
        /\ calls[w] # NoCall
        /\ SameKey(r, calls[w].user_id, calls[w].month, calls[w].year)
        /\ r.transaction_count = 2
        /\ "transactionCount" \in DOMAIN calls[w].report_data
        /\ calls[w].report_data.transactionCount = 1

\* The rows of the store for the month the job works on.
C14_Persisted == {r \in reports : r.month = batch.month /\ r.year = batch.year}

\* When the job has ended, every listed user was attempted, in order, and the
\* success count is the number of reports in the store.
C14_Counted ==
    batch.state = "done" =>
        /\ batch.attempted = batch.users \o SubSeq(all_users, 1, batch.total)
        /\ batch.users = <<>>
        /\ batch.success_count = Cardinality(C14_Persisted)
        /\ \A r \in C14_Persisted :
              \E i \in 1..Len(batch.attempted) : batch.attempted[i] = r.user_id

(* C14: generate_all_monthly_reports attempts report generation for every
   user of the user listing, whatever failed for earlier users (storage read,
   aggregation, persistence); it ends without raising, and its success count
   is the number of users whose report was generated and persisted. *)
C14_BatchCompletes ==
    []C14_Counted /\ ((batch.state = "running") ~> (batch.state = "done"))

\* Reached: the job ended with the first user's report failed and the second
\* user's report stored and counted.
C14_Witness ==
    /\ batch.state = "done"
    /\ batch.attempted = all_users
    /\ batch.success_count = 1
    /\ \A r \in reports : r.user_id = all_users[2]
    /\ reports # {}

(* C15: an empty dataset is not an error for report generation: for a
   (user_id, month, year) with no expenses in that month and a store that can
   be reached, generate_monthly_report returns the empty-state snapshot
   (totalSpent 0, topCategory none) and hands it to the store. *)
C15_EmptyReportStored ==
    (/\ last.op = "report" /\ last.response.status # 400
     /\ last.pg_ok
     /\ last.report_data.totalSpent = 0
     /\ last.report_data.topCategory = None) =>
        /\ last.response.success = TRUE
        /\ last.response.data.totalSpent = 0
        /\ last.response.data.topCategory = None
        /\ RowsFor(reports, last.user, last.month, last.year) # {}

(* C16: every stored expense has amount > 0 after any sequence of
   create_expense, update_expense and delete_expense requests: a request that
   would store an amount <= 0 is rejected and leaves the record unchanged. *)
C16_PositiveAmounts ==
    \A e \in expenses : e.amount > 0

\* The records of user u dated from start_date on, in a set.
Since(u, start_date) ==
    {e \in expenses : e.user_id = u /\ e.date >= start_date}

\* The summed amount of a set of records.
SumOf(S) == SumSeq(AmountsOf(NaturalOrder(S)))

(* C17: the load window is the half-open interval [start_date, end_date):
   Expense.find_by_user_id called with an end_date returns every record of the
   user with start_date <= timestamp < end_date and no record whose timestamp
   equals end_date. *)
C17_HalfOpenWindow ==
    (last.op = "expenses" /\ last.end_date # NoDate) =>
        {last.response.data[i].id : i \in 1..Len(last.response.data)} =
            {e.id : e \in {x \in expenses :
                              /\ x.user_id = last.user
                              /\ (last.start_date # NoDate =>
                                      x.date >= last.start_date)
                              /\ x.date < last.end_date}}

\* The summed amount of the records of category c in S.
CategorySum(S, c) == SumOf({e \in S : e.category = c})

\* c is a category of S with the largest summed amount.
IsTopCategory(S, c) ==
    /\ \E e \in S : e.category = c
    /\ \A e \in S : CategorySum(S, e.category) <= CategorySum(S, c)

\* The answer of a summary request has the three periods and their five fields;
\* an empty window is all zero and none.
C18_Shape(data) ==
    /\ DOMAIN data = {"last_7_days", "last_30_days", "last_90_days"}
    /\ \A p \in DOMAIN data :
          /\ DOMAIN data[p] = {"total_spent", "transaction_count",
                               "average_transaction", "top_category",
                               "top_category_amount"}
          /\ data[p].transaction_count =
                Cardinality(Since(last.user, now - SummaryPeriods[p]))
          /\ Since(last.user, now - SummaryPeriods[p]) = {} =>
                data[p] = [total_spent |-> 0, transaction_count |-> 0,
                           average_transaction |-> 0, top_category |-> None,
                           top_category_amount |-> 0]
          /\ Since(last.user, now - SummaryPeriods[p]) # {} =>
                IsTopCategory(Since(last.user, now - SummaryPeriods[p]),
                              data[p].top_category)

(* C18 as stated: get_spending_summary returns exactly the three periods
   last_7_days, last_30_days and last_90_days; for each it reports the total
   of the window, the number of its records, average_transaction =
   total/count, and the category with the largest summed amount together with
   that amount; an empty window reports 0, 0, 0, none, 0. *)
C18_ExactSummary ==
    last.op = "summary" =>
        /\ C18_Shape(LastData)
        /\ \A p \in DOMAIN LastData :
              LET W == Since(last.user, now - SummaryPeriods[p])
              IN  W # {} =>
                    /\ LastData[p].total_spent = SumOf(W)
                    /\ LastData[p].average_transaction * Cardinality(W) = SumOf(W)
                    /\ LastData[p].top_category_amount =
                          CategorySum(W, LastData[p].top_category)

(* C18: get_spending_summary returns exactly the three periods last_7_days,
   last_30_days and last_90_days; for each it reports the total of the window
   rounded to 2 decimals, the number of its records, average_transaction =
   total/count rounded to 2 decimals, and a category with the largest summed
   amount together with that amount rounded to 2 decimals; an empty window
   reports 0, 0, 0, none, 0. *)
C18_RoundedSummary ==
    last.op = "summary" =>
        /\ C18_Shape(LastData)
        /\ \A p \in DOMAIN LastData :
              LET W == Since(last.user, now - SummaryPeriods[p])
              IN  W # {} =>
                    /\ IsRound2(LastData[p].total_spent, SumOf(W), 1)
                    /\ IsRound2(LastData[p].average_transaction, SumOf(W),
                                Cardinality(W))
                    /\ IsRound2(LastData[p].top_category_amount,
                                CategorySum(W, LastData[p].top_category), 1)

\* Reached: a summary whose last 7 days are empty, whose last 30 days have
\* Rent on top and whose last 90 days have Travel on top, the 90-day total not
\* being a whole number of cents before rounding.
C18_Witness ==
    /\ last.op = "summary"
    /\ LastData.last_7_days.transaction_count = 0
    /\ LastData.last_30_days.top_category = "Rent"
    /\ LastData.last_90_days.top_category = "Travel"
    /\ LastData.last_90_days.transaction_count = 3
    /\ SumOf(Since(last.user, now - 90)) % 10 # 0

\* The records an insights request is about: the user's records of the
\* category dated within the last 30 days.
InsightRecords ==
    {e \in Since(last.user, now - WindowDays) : e.category = last.category}

\* The smaller of two numbers.
Min(a, b) == IF a < b THEN a ELSE b

(* C19: for a category with n matching records in the 30-day window, on
   distinct dates, get_category_insights returns as recent_transactions the
   last min(5, n) elements of the newest-first list: the chronologically
   oldest records of the window, in newest-first order among themselves; when
   n > 5 the newest record of the window is not among them. *)
C19_OldestFive ==
    (/\ last.op = "insights"
     /\ InsightRecords # {}
     /\ \A e1, e2 \in InsightRecords : e1.date = e2.date => e1 = e2) =>
        LET W == InsightRecords
            n == Cardinality(W)
            rt == LastData.recent_transactions
            shown == {rt[i].id : i \in 1..Len(rt)}
        IN  /\ Len(rt) = Min(5, n)
            /\ Cardinality(shown) = Len(rt)
            /\ \A i \in 1..Len(rt) : \E e \in W : rt[i] = to_dict(e)
            /\ \A i \in 1..(Len(rt) - 1) : rt[i].date > rt[i + 1].date
            /\ \A e \in W : e.id \notin shown =>
                  \A i \in 1..Len(rt) : e.date > rt[i].date
            /\ n > 5 =>
                  \A e \in W : (\A x \in W : x.date <= e.date) => e.id \notin shown

\* Reached: insights for a category with six records in the window, answered
\* with the five oldest; today's record, the newest, is left out.
C19_Witness ==
    /\ last.op = "insights"
    /\ Cardinality(InsightRecords) = 6
    /\ Len(LastData.recent_transactions) = 5
    /\ LastData.recent_transactions[1].date = now - 1
    /\ LastData.recent_transactions[5].date = now - 5
    /\ \E e \in InsightRecords : e.date = now

(* C20: get_category_insights for a category with zero matching records of
   the user in the last 30 days returns a successful result with total_spent
   0, transaction_count 0 and a descriptive message, never an error
   response. *)
C20_EmptyCategory ==
    (last.op = "insights" /\ InsightRecords = {}) =>
        /\ last.response.success = TRUE
        /\ "status" \notin DOMAIN last.response
        /\ LastData.category = last.category
        /\ LastData.total_spent = 0
        /\ LastData.transaction_count = 0
        /\ LastData.message = <<"no_expenses_found", last.category>>

\* Reached: insights for a category without records in the window, asked by a
\* user who has expenses in another category and an older one out of the
\* window.
C20_Witness ==
    /\ last.op = "insights"
    /\ InsightRecords = {}
    /\ last.response.success = TRUE
    /\ \E e \in Since(last.user, now - WindowDays) : e.category # last.category
    /\ \E e \in expenses : e.user_id = last.user /\ e.date < now - WindowDays

\* The week keys of the records of a DataFrame.
WeekKeysOf(df) == {YearWeekKey(df[i].date) : i \in 1..Len(df)}

\* The trend suggestions of a list: the ones that carry a trend.
TrendSuggestionsOf(suggestions) ==
    SelectSeq(suggestions, LAMBDA x : "trend" \in DOMAIN x)

(* C21: when the records, not none, fall in fewer than 2 distinct weeks (week
   keys), get_spending_trends returns trend "insufficient_data" with
   recent_weekly_avg 0 and earlier_weekly_avg 0, and the trend rule of
   generate_smart_suggestions then emits nothing. *)
C21_InsufficientData ==
    (Answered /\ last.df # <<>> /\ Cardinality(WeekKeysOf(last.df)) < 2) =>
        /\ LastTrends.trend = "insufficient_data"
        /\ LastTrends.recent_weekly_avg = 0
        /\ LastTrends.earlier_weekly_avg = 0
        /\ Comprehensive => TrendSuggestionsOf(LastData.suggestions) = <<>>

\* Reached: a comprehensive analysis of records of one week, two days after
\* the expense, with suggestions and none of them about the trend.
C21_Witness ==
    /\ Comprehensive /\ last.df # <<>>
    /\ Cardinality(WeekKeysOf(last.df)) = 1
    /\ LastTrends.trend = "insufficient_data"
    /\ LastData.suggestions # <<>>

\* The week keys of the answered records in the order of the report (the
\* sorted keys), and the total of the k-th of them.
C22_Weeks == SortedStrings(WeekKeysOf(last.df))
C22_Total(k) ==
    SumSeq(AmountsOf(SelectSeq(last.df,
                               LAMBDA r : YearWeekKey(r.date) = C22_Weeks[k])))

\* The places, in that order, of the weeks of the recent and of the earlier
\* window.
C22_RecentPlaces == {Len(C22_Weeks) - 1, Len(C22_Weeks)}
C22_EarlierPlaces == IF Len(C22_Weeks) >= 4 THEN {1, 2} ELSE {1}

\* The sum of the totals of the weeks at the places S.
C22_Sum(S) ==
    SumSeq([k \in 1..Len(C22_Weeks) |-> IF k \in S THEN C22_Total(k) ELSE 0])

(* C22: with k >= 2 distinct weeks, the recent window is the last 2 weeks and
   the earlier window is the first 2 weeks when k >= 4 and the first week
   alone when k is 2 or 3; so with exactly 2 weeks w1, w2 recent_weekly_avg =
   (w1+w2)/2 and earlier_weekly_avg = w1 (the first week is in both windows),
   and the two windows are disjoint for every k >= 3.  The weeks are in the
   order of the report's sorted week keys. *)
C22_WindowSizes ==
    (Answered /\ last.df # <<>> /\ Len(C22_Weeks) >= 2) =>
        /\ IsRound2(LastTrends.recent_weekly_avg, C22_Sum(C22_RecentPlaces), 2)
        /\ IsRound2(LastTrends.earlier_weekly_avg, C22_Sum(C22_EarlierPlaces),
                    Cardinality(C22_EarlierPlaces))
        /\ Len(C22_Weeks) = 2 =>
              /\ IsRound2(LastTrends.recent_weekly_avg,
                          C22_Total(1) + C22_Total(2), 2)
              /\ IsRound2(LastTrends.earlier_weekly_avg, C22_Total(1), 1)
              /\ C22_RecentPlaces \cap C22_EarlierPlaces = {1}
        /\ Len(C22_Weeks) >= 3 => C22_RecentPlaces \cap C22_EarlierPlaces = {}

\* Reached: a report over three weeks of different totals whose earlier
\* average is the first week's total and whose recent average is the mean of
\* the other two.
C22_Witness ==
    /\ Answered /\ last.df # <<>>
    /\ Len(C22_Weeks) = 3
    /\ C22_Total(1) # C22_Total(2)
    /\ C22_Total(2) # C22_Total(3)
    /\ LastTrends.earlier_weekly_avg = C22_Total(1)
    /\ LastTrends.recent_weekly_avg * 2 = C22_Total(2) + C22_Total(3)

\* The calendar days of the answered records and the sum of the amounts of
\* one day.
C23_Days == {last.df[i].date : i \in 1..Len(last.df)}
C23_DaySum(d) == SumSeq(AmountsOf(SelectSeq(last.df, LAMBDA r : r.date = d)))

(* C23: for every non-empty record set, highest_spending_day is the calendar
   day with the largest per-day sum and lowest_spending_day the day with the
   smallest per-day sum, each reported with its date and amount; when several
   days tie, the earliest date among the tied days is reported. *)
C23_ExtremeDays ==
    (Answered /\ last.df # <<>>) =>
        LET hi == LastTrends.highest_spending_day
            lo == LastTrends.lowest_spending_day
        IN  /\ DOMAIN hi = {"date", "amount"} /\ DOMAIN lo = {"date", "amount"}
            /\ hi.date \in C23_Days /\ lo.date \in C23_Days
            /\ hi.amount = C23_DaySum(hi.date)
            /\ lo.amount = C23_DaySum(lo.date)
            /\ \A d \in C23_Days :
                  /\ C23_DaySum(d) <= hi.amount
                  /\ C23_DaySum(d) >= lo.amount
                  /\ C23_DaySum(d) = hi.amount => hi.date <= d
                  /\ C23_DaySum(d) = lo.amount => lo.date <= d

\* Reached: a report over days of which two tie for the largest sum and two
\* for the smallest, the earlier of each pair reported, the two being
\* different days.
C23_Witness ==
    /\ Answered /\ last.df # <<>>
    /\ LastTrends.highest_spending_day.amount > LastTrends.lowest_spending_day.amount
    /\ \E d \in C23_Days :
          /\ d > LastTrends.highest_spending_day.date
          /\ C23_DaySum(d) = LastTrends.highest_spending_day.amount
    /\ \E d \in C23_Days :
          /\ d > LastTrends.lowest_spending_day.date
          /\ C23_DaySum(d) = LastTrends.lowest_spending_day.amount

\* The cascade of rules went past the short-circuit for an empty
\* category_analysis and ran to its end: the list is not the error list.
C24_RulesRan ==
    /\ LastData.category_analysis # <<>>
    /\ \A i \in 1..Len(LastData.suggestions) :
          LastData.suggestions[i].type # "error"

\* The trend label the rules were given, None when there is none.
C24_Label == DictGet(LastTrends, "trend")

(* C24: generate_smart_suggestions emits exactly one alert/high suggestion
   when the trend label is "increasing", exactly one positive/low suggestion
   whose saving equals earlier_weekly_avg - recent_weekly_avg when it is
   "decreasing", and no trend suggestion when it is "stable",
   "insufficient_data" or absent.  The rule is one of a cascade: it is
   reached when category_analysis is not empty and no rule fails. *)
C24_TrendRule ==
    (Failing /\ C24_RulesRan) =>
        LET ts == TrendSuggestionsOf(LastData.suggestions)
        IN  /\ C24_Label = "increasing" =>
                  /\ Len(ts) = 1
                  /\ ts[1].type = "alert" /\ ts[1].priority = "high"
                  /\ ts[1].trend = "increasing"
                  /\ ts[1].message = <<"spending_increased",
                                       LastTrends.earlier_weekly_avg,
                                       LastTrends.recent_weekly_avg>>
            /\ C24_Label = "decreasing" =>
                  /\ Len(ts) = 1
                  /\ ts[1].type = "positive" /\ ts[1].priority = "low"
                  /\ ts[1].trend = "decreasing"
                  /\ ts[1].message = <<"spending_decreased",
                                       LastTrends.earlier_weekly_avg
                                           - LastTrends.recent_weekly_avg>>
            /\ C24_Label \notin {"increasing", "decreasing"} => ts = <<>>

\* Reached: an analysis with a decreasing trend whose one trend suggestion
\* tells a saving above zero, beside suggestions of other rules.
C24_Witness ==
    /\ Failing /\ C24_RulesRan
    /\ C24_Label = "decreasing"
    /\ Len(TrendSuggestionsOf(LastData.suggestions)) = 1
    /\ TrendSuggestionsOf(LastData.suggestions)[1].message[2] > 0
    /\ Len(LastData.suggestions) > 1

\* The number of answered records of category c.
C25_Count(c) == Len(SelectSeq(last.df, LAMBDA r : r.category = c))

\* The consolidation suggestions for category c: the ones that carry a
\* transaction_count.
C25_Tips(c) ==
    SelectSeq(LastData.suggestions,
              LAMBDA x : /\ "transaction_count" \in DOMAIN x
                         /\ x.category = c)

\* The share-based suggestions for category c: the ones that carry a
\* current_spending and a category.
C25_Shares(c) ==
    SelectSeq(LastData.suggestions,
              LAMBDA x : /\ "current_spending" \in DOMAIN x
                         /\ "category" \in DOMAIN x
                         /\ x.category = c)

(* C25: generate_smart_suggestions emits one tip/medium consolidation
   suggestion for every category whose transaction_count > 15, whether or not
   it is among the top 3 by total_spent, and none for a category with
   transaction_count <= 15; a top-3 category over 15 transactions can
   therefore carry both a share-based and a consolidation suggestion. *)
C25_FrequencyRule ==
    (Comprehensive /\ last.df # <<>>) =>
        \A c \in CategoriesOf(last.df) :
            /\ C25_Count(c) > 15 =>
                  /\ Len(C25_Tips(c)) = 1
                  /\ C25_Tips(c)[1].type = "tip"
                  /\ C25_Tips(c)[1].priority = "medium"
                  /\ C25_Tips(c)[1].transaction_count = C25_Count(c)
            /\ C25_Count(c) <= 15 => C25_Tips(c) = <<>>

\* Reached: an analysis of four categories; one with 16 transactions is the
\* smallest by total, behind the top 3, and has its consolidation tip; another
\* with 16 transactions is among the top 3 and has both a share-based
\* suggestion and a consolidation tip; one with 15 transactions has no tip.
C25_Witness ==
    /\ Comprehensive /\ last.df # <<>>
    /\ \E c \in CategoriesOf(last.df) :
          /\ C8_Ahead(c) = 3
          /\ C25_Count(c) = 16
          /\ Len(C25_Tips(c)) = 1
    /\ \E c \in CategoriesOf(last.df) :
          /\ C8_Ahead(c) < 3
          /\ Len(C25_Tips(c)) = 1
          /\ Len(C25_Shares(c)) = 1
    /\ \E c \in CategoriesOf(last.df) :
          /\ C25_Count(c) = 15
          /\ C25_Tips(c) = <<>>

(* C26: in every response of get_spending_summary the windows nest:
   last_7_days.transaction_count <= last_30_days.transaction_count <=
   last_90_days.transaction_count and likewise for total_spent, including
   when the user's expenses are created, updated or deleted concurrently
   between the three independent loads. *)
C26_WindowsNest ==
    last.op = "summary" =>
        /\ LastData.last_7_days.transaction_count
              <= LastData.last_30_days.transaction_count
        /\ LastData.last_30_days.transaction_count
              <= LastData.last_90_days.transaction_count
        /\ LastData.last_7_days.total_spent <= LastData.last_30_days.total_spent
        /\ LastData.last_30_days.total_spent <= LastData.last_90_days.total_spent

\* The sum of the values of the weekly dict, and of one field over the entries
\* of the category dict.
C27_SumValues(d) ==
    LET keys == SortedStrings(DOMAIN d)
    IN  SumSeq([i \in 1..Len(keys) |-> d[keys[i]]])
C27_SumField(d, field) ==
    LET keys == DictKeys(d)
    IN  SumSeq([i \in 1..Len(keys) |-> d[keys[i]][field]])

(* C27: for every non-empty record set, each record is counted in exactly one
   category and exactly one week key: the sum of the weekly_spending values,
   the sum of the category_analysis total_spent values and total_expenses are
   all equal up to 2-decimal rounding (the weekly sums are exact, each
   category total and total_expenses is within half a cent of its exact
   value), and the sum of transaction_count over the categories equals
   expense_count. *)
C27_Conservation ==
    (Comprehensive /\ last.df # <<>>) =>
        LET ca == LastData.category_analysis
            exact == TotalOf(last.df)
        IN  /\ C27_SumValues(LastTrends.weekly_spending) = exact
            /\ IsRound2(LastData.total_expenses, exact, 1)
            /\ 2 * Abs(C27_SumField(ca, "total_spent") - exact)
                  <= 10 * Cardinality(DOMAIN ca)
            /\ C27_SumField(ca, "transaction_count") = LastData.expense_count
            /\ LastData.expense_count = Len(last.df)

\* Reached: an analysis of two records of different categories in different
\* weeks, one of them of less than a cent.
C27_Witness ==
    /\ Comprehensive /\ Len(last.df) = 2
    /\ Cardinality(DOMAIN LastData.category_analysis) = 2
    /\ Cardinality(DOMAIN LastTrends.weekly_spending) = 2
    /\ TotalOf(last.df) % 10 # 0

\* The owner of the expense a request names, before the request: None when
\* there is no such expense.
C28_Owner ==
    IF \E e \in expenses : e.id = last'.expense_id
    THEN (CHOOSE e \in expenses : e.id = last'.expense_id).user_id
    ELSE None

\* A step of the service as seen by the users: the request answered in it is
\* the frame last'.
C28_Step ==
    /\ \A e \in expenses :
          e \notin expenses' =>
              /\ last' # last
              /\ last'.op \in {"update", "delete"}
              /\ last'.user = e.user_id
    /\ (last' # last /\ last'.op \in {"get", "update", "delete"}) =>
          /\ C28_Owner # last'.user =>
                /\ last'.response = ExpenseNotFound
                /\ expenses' = expenses
          /\ (last'.op = "get" /\ last'.response.success) =>
                last'.response.data.user_id = last'.user
    /\ (last' # last /\ last'.op = "expenses") =>
          {last'.response.data[i].id : i \in 1..Len(last'.response.data)} =
              {e.id : e \in {x \in expenses : x.user_id = last'.user}}
    /\ (last' # last /\ last'.op = "comprehensive") =>
          /\ {last'.df[i].id : i \in 1..Len(last'.df)} =
                {e.id : e \in {x \in expenses : /\ x.user_id = last'.user
                                                 /\ x.date >= last'.start_date}}
          /\ last'.response = IF last'.df = <<>> THEN EmptyAnalysis
                               ELSE FullAnalysis(last'.df)

(* C28: user isolation: for any two users A and B and any sequence of
   requests, a request authenticated as A never returns, updates or deletes an
   expense owned by B (get_expense, update_expense and delete_expense answer
   "Expense not found" for B's expense ids and leave B's records unchanged),
   and A's analysis results do not depend on B's records: they are computed
   from A's records alone. *)
C28_UserIsolation == [][C28_Step]_vars

\* Reached: the second user has asked to delete the first user's expense, was
\* answered "Expense not found", and both users' expenses are still stored.
C28_Witness ==
    /\ last.op = "delete"
    /\ last.user = "u2"
    /\ last.response = ExpenseNotFound
    /\ \E e \in expenses : e.id = last.expense_id /\ e.user_id = "u1"
    /\ \E e \in expenses : e.user_id = "u2"

\* The request answered last carries a header of the form "Bearer <token>",
\* its token decodes, with a valid signature and unexpired, and the user it
\* names exists.
C29_Admitted ==
    /\ last.header.present
    /\ last.header.parts = 2 /\ last.header.scheme = "Bearer"
    /\ last.header.token.well_formed
    /\ last.header.token.signed
    /\ ~last.header.token.expired
    /\ last.header.token.userId \in Users

\* The header is missing or malformed.
C29_BadHeader ==
    \/ ~last.header.present
    \/ last.header.parts # 2
    \/ last.header.scheme # "Bearer"

\* The token of a well-formed header is invalid or expired: it cannot be
\* parsed, its signature does not verify, it is expired, or its payload names
\* no user id that can be looked up.
C29_BadToken ==
    /\ ~C29_BadHeader
    /\ \/ ~last.header.token.well_formed
       \/ ~last.header.token.signed
       \/ last.header.token.expired
       \/ last.header.token.userId \in {None, "bad"}

(* C29: a handler wrapped by authenticate_token runs only when the request
   carries an Authorization header of the form "Bearer <token>", the token
   decodes validly and unexpired, and the user it names exists; in every other
   case the handler is not invoked and the response is 401 (missing header,
   malformed header, unknown user) or 403 (expired or invalid token). *)
C29_AuthGate ==
    last.op = "authenticated" =>
        /\ last.result.invoked = (IF C29_Admitted THEN 1 ELSE 0)
        /\ C29_Admitted => last.result.user = last.header.token.userId
        /\ ~C29_Admitted =>
              /\ last.result.status \in {401, 403}
              /\ C29_BadHeader => last.result.status = 401
              /\ C29_BadToken => last.result.status = 403
              /\ (~C29_BadHeader /\ ~C29_BadToken) =>
                    /\ last.header.token.userId \notin Users
                    /\ last.result.status = 401

\* Reached: a request with a well-formed header and a valid, unexpired token
\* that names no user: answered 401 without the handler.
C29_Witness ==
    /\ last.op = "authenticated"
    /\ ~C29_BadHeader /\ ~C29_BadToken /\ ~C29_Admitted
    /\ last.result.invoked = 0
    /\ last.result.status = 401

(* C30: a handler wrapped by optional_auth is invoked exactly once per
   request, whatever the outcome of token decoding and whether or not the
   handler itself raises. *)
C30_InvokedOnce ==
    last.op = "optional" => last.result.invoked = 1

=============================================================================
